---------------------------- MODULE Spec2Model ----------------------------
(***************************************************************************)
(* A model of chesshook2: the multi-account puzzle solver (main.go), its   *)
(* per-account run loop (processAccount), the cooldown gate and the        *)
(* account store db.json.                                                  *)
(*                                                                         *)
(* Time is counted in whole hours.  Usernames are the numbers 1..n.        *)
(***************************************************************************)
EXTENDS Integers, Sequences, FiniteSets, TLC

\* ------------------------------------------------------------------ bounds
MaxAccounts == 2      \* accounts in db.json
MaxLimit    == 2      \* largest max_concurrent_accounts tried
MaxTicks    == 2      \* hours the clock may advance
MaxSessions == 3      \* puzzle sessions one run may attempt
MaxRating   == 2      \* largest rating the remote reports
NowStart    == 30     \* the clock when the first command starts
DrawSteps   == 24     \* grid points of rand.Float64() tried by the duration draw
MaxCallers  == 2      \* goroutines that call the Logger

\* ------------------------------------------------------- program constants
CooldownHours == 24   \* 24*time.Hour
ZeroTime      == 0    \* time.Time{} (IsZero)

MaxNow == NowStart + MaxTicks
MaxConns    == 2      \* websocket connections the engine server accepts
InputChanCap == 100   \* make(chan string, 100): the room of engineInputChannel
MaxDelay    == 2      \* longest paced delay of the countdown runs, in seconds
TicksPerSecond == 2   \* the clock of the countdown runs ticks twice a second

\* --------------------------------------------------------------- the data
\* Strategy (config.go) and the catalog loadStrategies builds from
\* strategies.json, keyed by name.
StopModePuzzles == "stop_at_puzzles_completed"
StopModeRating  == "stop_at_rating"
SubmitModeASAP  == "asap"
SubmitModeLegit == "legit"

MkStrategy(name, stop, ppd, target, tmode, smode) ==
    [Name |-> name, StopMode |-> stop, PuzzlesPerDay |-> ppd,
     TargetRating |-> target, TimeMode |-> tmode, SubmitMode |-> smode]

StrategyList ==
    << MkStrategy("quick",  StopModePuzzles, 1, 0, "legit", SubmitModeASAP),
       MkStrategy("count",  StopModePuzzles, 2, 0, "legit", SubmitModeASAP),
       MkStrategy("rating", StopModeRating,  0, 2, "legit", SubmitModeASAP),
       MkStrategy("both",   StopModeRating,  3, 2, "legit", SubmitModeASAP),
       MkStrategy("endless",    StopModePuzzles,  0, 0, "legit", SubmitModeASAP),
       MkStrategy("minus",      StopModePuzzles, -1, 2, "zero",  SubmitModeLegit),
       MkStrategy("chase0",     StopModeRating,   2, 0, "legit", SubmitModeASAP),
       MkStrategy("chaseMinus", StopModeRating,   0, -1, "hour", SubmitModeLegit),
       MkStrategy("asapHour",   StopModePuzzles,  2, 0, "hour",  SubmitModeASAP),
       MkStrategy("asapZero",   StopModePuzzles,  2, 0, "zero",  SubmitModeASAP),
       MkStrategy("asapOther",  StopModePuzzles,  2, 0, "fast",  SubmitModeASAP),
       MkStrategy("paced",      StopModePuzzles,  2, 0, "legit", SubmitModeLegit),
       MkStrategy("pacedHour",  StopModePuzzles,  2, 0, "hour",  SubmitModeLegit),
       MkStrategy("pacedZero",  StopModePuzzles,  2, 0, "zero",  SubmitModeLegit),
       MkStrategy("pacedOther", StopModePuzzles,  2, 0, "fast",  SubmitModeLegit),
       MkStrategy("pacedChase", StopModeRating,   3, 2, "zero",  "slow") >>

StrategyNames == { StrategyList[i].Name : i \in 1..Len(StrategyList) }

\* the strategies the accounts of the cooldown runs are given
GateStrategyNames == {"quick", "count", "rating", "both"}

strategies == [ n \in StrategyNames |->
                  CHOOSE s \in { StrategyList[i] : i \in 1..Len(StrategyList) } :
                      s.Name = n ]

NoStrategy == MkStrategy("", "", 0, 0, "", "")

\* the empty cookie; a cookie that is not empty is the username of its owner
NoCookie == 0

\* Account (config.go)
MkAccount(u, prem, strat, last) ==
    [Username |-> u, IsPremium |-> prem, StrategyName |-> strat, LastRun |-> last,
     Cookie |-> u, LastRating |-> 0, PremiumExpiry |-> ZeroTime]

NullAccount == MkAccount(0, FALSE, "", ZeroTime)

\* Ratings the remote may report after a submit (0: no userRatings entry).
Ratings == 0..MaxRating

\* error values of a run
ErrNil      == [kind |-> "nil",                until |-> ZeroTime]
ErrStrategy == [kind |-> "strategy not found", until |-> ZeroTime]
ErrFetch    == [kind |-> "fetch failed",       until |-> ZeroTime]
ErrSubmit   == [kind |-> "submit failed",      until |-> ZeroTime]
ErrCooldown(t) == [kind |-> "on cooldown until", until |-> t]

\* getNextPuzzle: fmt.Errorf("got empty puzzle ID. Response body: %s", body);
\* a body is the sequence of its words
ErrEmptyPuzzle(body) ==
    [kind |-> "got empty puzzle ID. Response body:", until |-> ZeroTime, body |-> body]

\* response bodies without a puzzle in them that the remote may answer a fetch with
HostileBodies == { <<"403", "Forbidden">>, <<"puzzle", "cooldown", "active">> }

\* err.Error(), as the sequence of its words (the strategy name that ends
\* the strategy-not-found text is left out)
ErrorText(e) ==
    CASE e.kind = "on cooldown until" -> <<"on", "cooldown", "until", ToString(e.until)>>
      [] e.kind = "got empty puzzle ID. Response body:" ->
             <<"got", "empty", "puzzle", "ID.", "Response", "body:">> \o e.body
      [] e.kind = "strategy not found" -> <<"strategy", "not", "found:">>
      [] e.kind = "failed to get membership status:" ->
             <<"failed", "to", "get", "membership", "status:">> \o e.body
      [] OTHER -> << e.kind >>

\* strings.Contains(text, word), for a word free of spaces
Contains(text, word) == \E i \in 1..Len(text) : text[i] = word

\* strings.Contains(text, phrase), for a phrase of several words
ContainsPhrase(text, phrase) ==
    \E i \in 1..Len(text) :
        /\ i + Len(phrase) - 1 <= Len(text)
        /\ SubSeq(text, i, i + Len(phrase) - 1) = phrase

\* getMembershipStatus: fmt.Errorf("failed to get membership status: %s", resp.Status)
ErrMembership(status) ==
    [kind |-> "failed to get membership status:", until |-> ZeroTime, body |-> status]

\* client.Do failed, or the body of a profile or stats answer did not parse
ErrTransport == [kind |-> "transport", until |-> ZeroTime]
ErrProfile   == [kind |-> "failed to unmarshal user profile response", until |-> ZeroTime]
ErrStats     == [kind |-> "failed to unmarshal stats response", until |-> ZeroTime]

NoGate == [seen |-> FALSE, LastRun |-> ZeroTime, IsPremium |-> FALSE, at |-> ZeroTime]

VARIABLES
    now,          \* the wall clock
    disk,         \* db.json: username -> Account
    cmd,          \* the CLI command in progress: "none", "run", "runOne"
    lpc,          \* where the command's own goroutine is
    db,           \* the Database the command loaded
    perIter,      \* the build: TRUE when a range loop declares a fresh variable
                  \* per iteration (go >= 1.22), FALSE when it reuses one
    maxConc,      \* appConfig.MaxConcurrentAccounts
    pending,      \* keys of db.Accounts the range loop has not visited
    cur,          \* the key of the iteration in progress (0: none)
    semaphore,    \* number of tokens in the semaphore channel
    wg,           \* the WaitGroup counter
    resultsChan,  \* the buffered result channel
    results,      \* what runSolver drained from the channel
    acct,         \* the account variables the workers point at, by slot
    wk,           \* the processAccount call of each key
    saves,        \* saveDatabase calls of the command in progress
    hist,         \* per key: what the previous finished command did
    draw,         \* the attempt duration submitSolution drew and the one it sends
    remote,       \* what the remote services do in this execution
    out,          \* what the command sent out: webhooks and the summary's buckets
    persistentLines,  \* Logger.persistentLines: key -> line
    orderedKeys,      \* Logger.orderedKeys
    lastUpdateLines,  \* Logger.lastUpdateLines
    mu,               \* Logger.mu: the caller that holds it (0: unlocked)
    display,          \* the status lines on the terminal that the next update
                      \* erases, top to bottom
    callers,          \* the goroutines that call the Logger and where they are
    lastOp,           \* per key: the last of AddLine/RemoveLine/ClearAll to act on it
    server,           \* the EngineServer: its fields and its connections
    args,             \* the arguments of the command in progress
    tasks             \* the countdown goroutines processAccount has started

LoggerVars == << persistentLines, orderedKeys, lastUpdateLines, mu, display, callers,
                lastOp >>

\* the variables of the commands
RunVars == << now, disk, cmd, lpc, db, perIter, maxConc, draw, remote, out, pending, cur,
             semaphore, wg, resultsChan, results, acct, wk, saves, hist >>

vars == << now, disk, cmd, lpc, db, perIter, maxConc, draw, remote, out, LoggerVars, server, args, tasks, pending, cur, semaphore,
           wg, resultsChan, results, acct, wk, saves, hist >>

Keys  == 1..MaxAccounts
Slots == 0..MaxAccounts

IdleWorker ==
    [pc |-> "idle", ref |-> 0, strategy |-> NoStrategy, solvedCount |-> 0,
     lastRating |-> 0, finalError |-> ErrNil,
     \* bookkeeping of the run, not program state
     statsCalls |-> 0, fetches |-> 0, submits |-> 0, hooks |-> 0, sent |-> 0,
     startedAt |-> ZeroTime, submitAt |-> ZeroTime, loopEndAt |-> ZeroTime,
     gate |-> NoGate,
     \* headers := getHeaders(account.Cookie): the account whose cookie the
     \* session in progress carries (0: no session in progress)
     headers |-> 0,
     \* the paced delay in progress: solvedPuzzle.TimeTaken, the duration
     \* submitted for it and the delay slept, all 0 outside the sleep
     rnd |-> 0, timeTaken |-> 0, sentDuration |-> 0, delay |-> 0,
     \* bookkeeping: sleeps and countdown goroutines started, target rating seen
     sleeps |-> 0, tickers |-> 0, reached |-> FALSE]

\* the remote in the executions where it never misbehaves: a failed puzzle
\* fetch is a transport error, every webhook is delivered
QuietRemote == [bodies |-> {}, webhook |-> "up"]

\* SendWebhook: what one call comes to. appConfig.DiscordWebhookURL may be
\* unset (no request is made), and the endpoint may be up or fail now and then
HookResults(r) ==
    CASE r.webhook = "unset" -> {"skipped"}
      [] r.webhook = "up"    -> {"sent"}
      [] OTHER               -> {"sent", "failed"}

\* SendWebhook(url, payload): the requests made and those that failed
SendWebhook(o, res) ==
    CASE res = "skipped" -> o
      [] res = "sent"    -> [o EXCEPT !.hookTries = @ + 1]
      [] OTHER           -> [o EXCEPT !.hookTries = @ + 1, !.hookFails = @ + 1]

\* processAccount: SendWebhook(webhookURL, ...) is a statement, its error is
\* dropped; the result carries finalError
ReportedError_HookAborts(finalError, res) ==
    IF res = "failed" THEN [kind |-> "webhook failed", until |-> ZeroTime] ELSE finalError

ReportedError(finalError, res) == finalError

\* runSolver: the bucket of the summary a result goes to
Bucket(err) ==
    IF err # ErrNil
    THEN IF Contains(ErrorText(err), "cooldown") THEN "cooldown" ELSE "errors"
    ELSE "success"

\* runSolver: the account names of one bucket, in the order of the results
BucketNames(rs, b) ==
    LET InBucket(r) == Bucket(r.Error) = b
        sel == SelectSeq(rs, InBucket)
    IN [i \in 1..Len(sel) |-> sel[i].AccountUsername]

\* nothing sent out yet
NoOut == [hookTries |-> 0, hookFails |-> 0,
          success |-> << >>, cooldown |-> << >>, errors |-> << >>]

\* the goroutines that call the Logger, the keys and the lines they pass
Callers   == 1..MaxCallers
LogKeys   == {"a", "b"}
LineTexts == {"x", "y"}
LogOps    == {"AddLine", "RemoveLine", "Printf", "Println", "Flush", "ClearAll"}

IdleCaller == [pc |-> "idle", op |-> "", key |-> "", val |-> ""]

\* make(map[string]string)
NoLines == [k \in {} |-> ""]

\* NewLogger(), no goroutine in a call
LoggerIdle ==
    /\ persistentLines = NoLines
    /\ orderedKeys = << >>
    /\ lastUpdateLines = 0
    /\ mu = 0
    /\ display = << >>
    /\ callers = [c \in Callers |-> IdleCaller]
    /\ lastOp = [k \in LogKeys |-> "none"]

\* no engine server, no arguments, no countdown goroutine
NoServer == [engineOwner |-> 0, engineInputChannel |-> 0, requireAuth |-> FALSE,
             localhostBypass |-> FALSE, users |-> << >>]
NoArgs   == [strategyName |-> "", accounts |-> << >>, cookie |-> 0]
NoTasks  == << >>

\* no duration drawn yet
NoDraw == [mode |-> "", u |-> 0, drawn |-> FALSE, duration |-> 0, sent |-> 0]

NoHist == [ran |-> FALSE, ok |-> FALSE, ppd |-> 0, premium |-> FALSE, endedAt |-> ZeroTime]

\* ------------------------------------------------------------ pure helpers
\* runSolver: limit := appConfig.MaxConcurrentAccounts; if limit <= 0 { limit = 1 }
EffectiveLimit(n) == IF n <= 0 THEN 1 ELSE n

\* the semaphore channel has room for one more token
SemaphoreHasRoom_OffByOne(tokens, limit) == tokens <= limit

SemaphoreHasRoom(tokens, limit) == tokens < limit

\* wg.Wait() returns
WaitGroupIsZero_NoWait(counter) == TRUE

WaitGroupIsZero(counter) == counter = 0

\* processAccount: !LastRun.IsZero() && time.Since(LastRun) < 24h && !IsPremium
CooldownBlocked_Inverted(a, t) ==
    /\ a.LastRun # ZeroTime
    /\ t - a.LastRun > CooldownHours
    /\ ~a.IsPremium

CooldownBlocked_Inclusive(a, t) ==
    /\ a.LastRun # ZeroTime
    /\ t - a.LastRun <= CooldownHours
    /\ ~a.IsPremium

CooldownBlocked(a, t) ==
    /\ a.LastRun # ZeroTime
    /\ t - a.LastRun < CooldownHours
    /\ ~a.IsPremium

\* processAccount: account.LastRun.Add(24*time.Hour)
CooldownUntil(a) == a.LastRun + CooldownHours

\* processAccount: the stop predicate evaluated after a successful session
ShouldStop_Late(s, solved, rating) ==
    CASE s.StopMode = StopModePuzzles -> s.PuzzlesPerDay > 0 /\ solved > s.PuzzlesPerDay
      [] s.StopMode = StopModeRating  -> s.TargetRating > 0 /\ rating >= s.TargetRating
      [] OTHER -> FALSE

ShouldStop_Above(s, solved, rating) ==
    CASE s.StopMode = StopModePuzzles -> s.PuzzlesPerDay > 0 /\ solved >= s.PuzzlesPerDay
      [] s.StopMode = StopModeRating  -> s.TargetRating > 0 /\ rating > s.TargetRating
      [] OTHER -> FALSE

ShouldStop_NoFloor(s, solved, rating) ==
    CASE s.StopMode = StopModePuzzles -> solved >= s.PuzzlesPerDay
      [] s.StopMode = StopModeRating  -> rating >= s.TargetRating
      [] OTHER -> FALSE

ShouldStop(s, solved, rating) ==
    CASE s.StopMode = StopModePuzzles -> s.PuzzlesPerDay > 0 /\ solved >= s.PuzzlesPerDay
      [] s.StopMode = StopModeRating  -> s.TargetRating > 0 /\ rating >= s.TargetRating
      [] OTHER -> FALSE

\* processAccount: if !shouldStop && strategy.SubmitMode != SubmitModeASAP
NeedsDelay_Always(s, stop) == ~stop

NeedsDelay(s, stop) == ~stop /\ s.SubmitMode # SubmitModeASAP

\* Durations are counted in units of 10 microseconds.
UnitsPerSecond == 100 * 1000
UnitsPerMilli  == 100

\* rand.Float64() is u / RandScale for a u in 0..RandScale-1
RandScale == 1000 * 1000

\* the values of rand.Float64() a puzzle session may draw
RandDraws == {0, 23334, 666667, RandScale - 1}

\* the values of rand.Float64() the duration draw is tried on
DrawGrid == { (i * RandScale) \div DrawSteps : i \in 0..(DrawSteps - 1) } \cup RandDraws

\* Strategy.TimeMode: the three modes of config.go and two it does not know
TimeModes == {"legit", "hour", "zero", "fast", ""}

\* one unit of duration is this many steps of the rand.Float64() grid
DrawsPerUnit == RandScale \div UnitsPerSecond

\* submitSolution: the switch on strategy.TimeMode
AttemptDuration_Flat(mode, u) == 15 * UnitsPerSecond

AttemptDuration(mode, u) ==
    CASE mode = "hour"  -> 3600 * UnitsPerSecond + (u * 1800) \div DrawsPerUnit
      [] mode = "legit" -> 15 * UnitsPerSecond + (u * 30) \div DrawsPerUnit
      [] mode = "zero"  -> UnitsPerSecond \div 10 + (u * 3) \div (10 * DrawsPerUnit)
      [] OTHER          -> 15 * UnitsPerSecond

\* submitSolution: fmt.Sprintf("%.3fs", attemptDuration), the value the
\* payload carries: the duration rounded to the millisecond
FormatMillis_Truncate(d) == (d \div UnitsPerMilli) * UnitsPerMilli

FormatMillis(d) == ((d + UnitsPerMilli \div 2) \div UnitsPerMilli) * UnitsPerMilli

\* processAccount: delay := time.Duration(solvedPuzzle.TimeTaken) * time.Second;
\* the conversion of the float64 to time.Duration drops its fraction
PacedDelay(taken) == (taken \div UnitsPerSecond) * UnitsPerSecond

\* processAccount: if strategy.PuzzlesPerDay > 0 && finalError == nil
MarksLastRun_AnyOutcome(s, err) == s.PuzzlesPerDay > 0

MarksLastRun(s, err) == s.PuzzlesPerDay > 0 /\ err = ErrNil

\* processAccount: account.LastRun = time.Now(), evaluated after the loop
LastRunStamp_AtStart(started, t) == started

LastRunStamp(started, t) == t

\* The variable the goroutine of key k gets the address of: the loop variable
\* of its own iteration, or the one variable all iterations share.
Slot(k) == IF perIter THEN k ELSE 0

\* capacity of the result channel: len(db.Accounts) in runSolver, 1 in runSolverForOne
ChanCap == IF cmd = "run" THEN Cardinality(DOMAIN db) ELSE 1

ProcessResult(k, a, solved, s, err) ==
    [AccountUsername |-> a.Username, PuzzlesSolved |-> solved,
     Strategy |-> s.Name, Error |-> err, by |-> k]

\* what saveDatabase("db.json", db) leaves in the file
Saved(d) == d

\* ----------------------------------------------------------- processAccount
Account(k) == acct[wk[k].ref]

CmdVars   == << cmd, lpc, db, perIter, maxConc, draw, remote, LoggerVars, server, args, tasks, pending, cur, results, saves, hist >>

\* strategy, ok := strategies[account.StrategyName]
P_Lookup_NoSend(k) ==
    /\ wk[k].pc = "start"
    /\ IF Account(k).StrategyName \notin DOMAIN strategies
       THEN wk' = [wk EXCEPT ![k].pc = "returned", ![k].startedAt = now]
       ELSE wk' = [wk EXCEPT ![k].pc = "stats0",
                             ![k].strategy = strategies[Account(k).StrategyName],
                             ![k].startedAt = now]
    /\ UNCHANGED << now, disk, semaphore, wg, acct, resultsChan >>
    /\ UNCHANGED << CmdVars, out >>

P_Lookup_StatsFirst(k) ==
    /\ wk[k].pc = "start"
    /\ IF Account(k).StrategyName \notin DOMAIN strategies
       THEN /\ Len(resultsChan) < ChanCap
            /\ resultsChan' = Append(resultsChan,
                   ProcessResult(k, Account(k), 0, NoStrategy, ErrStrategy))
            /\ wk' = [wk EXCEPT ![k].pc = "returned", ![k].sent = @ + 1,
                                ![k].statsCalls = @ + 1, ![k].startedAt = now]
       ELSE /\ wk' = [wk EXCEPT ![k].pc = "stats0",
                                ![k].strategy = strategies[Account(k).StrategyName],
                                ![k].startedAt = now]
            /\ UNCHANGED resultsChan
    /\ UNCHANGED << now, disk, semaphore, wg, acct >>
    /\ UNCHANGED << CmdVars, out >>

P_Lookup(k) ==
    /\ wk[k].pc = "start"
    /\ IF Account(k).StrategyName \notin DOMAIN strategies
       THEN /\ Len(resultsChan) < ChanCap
            /\ resultsChan' = Append(resultsChan,
                   ProcessResult(k, Account(k), 0, NoStrategy, ErrStrategy))
            /\ wk' = [wk EXCEPT ![k].pc = "returned", ![k].sent = @ + 1,
                                ![k].startedAt = now]
       ELSE /\ wk' = [wk EXCEPT ![k].pc = "stats0",
                                ![k].strategy = strategies[Account(k).StrategyName],
                                ![k].startedAt = now]
            /\ UNCHANGED resultsChan
    /\ UNCHANGED << now, disk, semaphore, wg, acct >>
    /\ UNCHANGED << CmdVars, out >>

\* initialStats, err := getTacticsStats(client, account.Cookie)
P_InitialStats_Skipped(k) ==
    /\ wk[k].pc = "stats0"
    /\ wk' = [wk EXCEPT ![k].pc = "gate"]
    /\ UNCHANGED << now, disk, semaphore, wg, acct, resultsChan >>
    /\ UNCHANGED << CmdVars, out >>

P_InitialStats(k) ==
    /\ wk[k].pc = "stats0"
    /\ wk' = [wk EXCEPT ![k].pc = "gate", ![k].statsCalls = @ + 1]
    /\ UNCHANGED << now, disk, semaphore, wg, acct, resultsChan >>
    /\ UNCHANGED << CmdVars, out >>

\* the cooldown gate
P_Gate(k) ==
    /\ wk[k].pc = "gate"
    /\ LET a == Account(k)
           g == [seen |-> TRUE, LastRun |-> a.LastRun, IsPremium |-> a.IsPremium,
                 at |-> now]
       IN IF CooldownBlocked(a, now)
          THEN wk' = [wk EXCEPT ![k].pc = "finalStats", ![k].gate = g,
                                ![k].finalError = ErrCooldown(CooldownUntil(a))]
          ELSE wk' = [wk EXCEPT ![k].pc = "loop", ![k].gate = g]
    /\ UNCHANGED << now, disk, semaphore, wg, acct, resultsChan >>
    /\ UNCHANGED << CmdVars, out >>

\* for !shouldStop { ... solvePuzzleForAccount: statsBefore := getTacticsStats
P_SessionBegin(k) ==
    /\ wk[k].pc = "loop"
    /\ wk[k].fetches < MaxSessions
    /\ wk' = [wk EXCEPT ![k].pc = "fetch", ![k].statsCalls = @ + 1,
                        ![k].headers = Account(k).Username]
    /\ UNCHANGED << now, disk, semaphore, wg, acct, resultsChan >>
    /\ UNCHANGED << CmdVars, out >>

\* solvePuzzleForAccount: puzzleResp, err := getNextPuzzle(client, headers)
P_Fetch_Retry(k) ==
    /\ wk[k].pc = "fetch"
    /\ \E ok \in BOOLEAN :
         IF ok
         THEN wk' = [wk EXCEPT ![k].pc = "submit", ![k].fetches = @ + 1]
         ELSE wk' = [wk EXCEPT ![k].pc = "loop", ![k].fetches = @ + 1, ![k].headers = 0,
                               ![k].lastRating = 0, ![k].finalError = ErrFetch]
    /\ UNCHANGED << now, disk, semaphore, wg, acct, resultsChan >>
    /\ UNCHANGED << CmdVars, out >>

P_Fetch(k) ==
    /\ wk[k].pc = "fetch"
    /\ \E ok \in BOOLEAN :
         IF ok
         THEN wk' = [wk EXCEPT ![k].pc = "submit", ![k].fetches = @ + 1]
         ELSE \E e \in {ErrFetch} \cup { ErrEmptyPuzzle(b) : b \in remote.bodies } :
                wk' = [wk EXCEPT ![k].pc = "afterLoop", ![k].fetches = @ + 1,
                                 ![k].headers = 0,
                                 ![k].lastRating = 0, ![k].finalError = e]
    /\ UNCHANGED << now, disk, semaphore, wg, acct, resultsChan >>
    /\ UNCHANGED << CmdVars, out >>

\* solvePuzzleForAccount: solutionResp, err := submitSolution(...), then the
\* rest of the loop body: solvedCount++, lastRating, the stop predicate and,
\* in a paced strategy, the countdown goroutine and the start of the sleep
P_Submit(k) ==
    /\ wk[k].pc = "submit"
    /\ \/ wk' = [wk EXCEPT ![k].pc = "afterLoop", ![k].submits = @ + 1,
                           ![k].headers = 0,
                           ![k].lastRating = 0, ![k].finalError = ErrSubmit]
       \/ \E r \in Ratings :
            LET s      == wk[k].strategy
                solved == wk[k].solvedCount + 1
                stop   == ShouldStop(s, solved, r)
                pause  == NeedsDelay(s, stop)
            IN \* the duration submitSolution drew matters only to the sleep
               \E u \in IF pause THEN RandDraws ELSE {0} :
                 LET taken == AttemptDuration(s.TimeMode, u)
                 IN wk' = [wk EXCEPT
                                ![k].pc = IF stop THEN "afterLoop"
                                          ELSE IF pause THEN "sleep" ELSE "loop",
                                ![k].submits = @ + 1,
                                ![k].headers = 0,
                                ![k].solvedCount = solved,
                                \* lastRating is local to the loop's block
                                ![k].lastRating = IF stop THEN 0 ELSE r,
                                ![k].submitAt = now,
                                ![k].rnd = IF pause THEN u ELSE 0,
                                ![k].timeTaken = IF pause THEN taken ELSE 0,
                                ![k].sentDuration = IF pause THEN FormatMillis(taken) ELSE 0,
                                ![k].delay = IF pause THEN PacedDelay(taken) ELSE 0,
                                ![k].sleeps = IF pause THEN @ + 1 ELSE @,
                                ![k].tickers = IF pause THEN @ + 1 ELSE @,
                                ![k].reached = @ \/ (s.TargetRating > 0 /\ r >= s.TargetRating)]
    /\ UNCHANGED << now, disk, semaphore, wg, acct, resultsChan >>
    /\ UNCHANGED << CmdVars, out >>

\* time.Sleep(delay) returns; the next iteration of the loop
P_Sleep(k) ==
    /\ wk[k].pc = "sleep"
    /\ wk' = [wk EXCEPT ![k].pc = "loop", ![k].rnd = 0, ![k].timeTaken = 0,
                        ![k].sentDuration = 0, ![k].delay = 0]
    /\ UNCHANGED << now, disk, semaphore, wg, acct, resultsChan >>
    /\ UNCHANGED << CmdVars, out >>

\* after the loop: if strategy.PuzzlesPerDay > 0 && finalError == nil
\*                     { account.LastRun = time.Now() }
P_AfterLoop(k) ==
    /\ wk[k].pc = "afterLoop"
    /\ IF MarksLastRun(wk[k].strategy, wk[k].finalError)
       THEN acct' = [acct EXCEPT ![wk[k].ref].LastRun =
                                     LastRunStamp(wk[k].startedAt, now)]
       ELSE UNCHANGED acct
    /\ wk' = [wk EXCEPT ![k].pc = "finalStats", ![k].loopEndAt = now]
    /\ UNCHANGED << now, disk, semaphore, wg, resultsChan >>
    /\ UNCHANGED << CmdVars, out >>

\* finalStats, err := getTacticsStats(client, account.Cookie)
P_FinalStats(k) ==
    /\ wk[k].pc = "finalStats"
    /\ wk' = [wk EXCEPT ![k].pc = "report", ![k].statsCalls = @ + 1]
    /\ UNCHANGED << now, disk, semaphore, wg, acct, resultsChan >>
    /\ UNCHANGED << CmdVars, out >>

\* buildCompletionEmbed, SendWebhook, RemoveLine, Printf, resultsChan <- result
P_Report(k) ==
    /\ wk[k].pc = "report"
    /\ Len(resultsChan) < ChanCap
    /\ \E res \in HookResults(remote) :
         /\ out' = SendWebhook(out, res)
         /\ resultsChan' = Append(resultsChan,
                ProcessResult(k, Account(k), wk[k].solvedCount, wk[k].strategy,
                              ReportedError(wk[k].finalError, res)))
    /\ wk' = [wk EXCEPT ![k].pc = "returned", ![k].hooks = @ + 1, ![k].sent = @ + 1]
    /\ UNCHANGED << now, disk, semaphore, wg, acct >>
    /\ UNCHANGED CmdVars

ProcessAccount(k) ==
    \/ P_Lookup(k)
    \/ P_InitialStats(k)
    \/ P_Gate(k)
    \/ P_SessionBegin(k)
    \/ P_Fetch(k)
    \/ P_Submit(k)
    \/ P_AfterLoop(k)
    \/ P_FinalStats(k)
    \/ P_Report(k)

\* ---------------------------------------------------------------- runSolver
NoAccounts == [k \in {} |-> NullAccount]

\* loadAppConfig, loadDatabase, loadStrategies, the start webhook,
\* resultsChan := make(chan ProcessResult, len(db.Accounts)), the semaphore
R_Start ==
    /\ cmd = "none"
    /\ lpc = "idle"
    /\ cmd' = "run"
    /\ db' = disk
    /\ pending' = DOMAIN disk
    /\ lpc' = "range"
    /\ \E res \in HookResults(remote) : out' = SendWebhook(out, res)
    /\ UNCHANGED << now, disk, perIter, maxConc, draw, remote, LoggerVars, server, args, tasks, cur, semaphore, wg,
                    resultsChan, results, acct, wk, saves, hist >>

\* for _, account := range db.Accounts { wg.Add(1)
R_Iter ==
    /\ cmd = "run"
    /\ lpc = "range"
    /\ \E k \in pending :
         /\ cur' = k
         /\ acct' = [acct EXCEPT ![Slot(k)] = db[k]]
    /\ wg' = wg + 1
    /\ lpc' = "acquire"
    /\ UNCHANGED << now, disk, cmd, db, perIter, maxConc, draw, remote, out, LoggerVars, server, args, tasks, pending, semaphore,
                    resultsChan, results, wk, saves, hist >>

\* semaphore <- struct{}{}; go func(account *Account) {...}(&account)
R_Spawn ==
    /\ cmd = "run"
    /\ lpc = "acquire"
    /\ SemaphoreHasRoom(semaphore, EffectiveLimit(maxConc))
    /\ semaphore' = semaphore + 1
    /\ wk' = [wk EXCEPT ![cur] = [IdleWorker EXCEPT !.pc = "start", !.ref = Slot(cur)]]
    /\ pending' = pending \ {cur}
    /\ cur' = 0
    /\ lpc' = "range"
    /\ UNCHANGED << now, disk, cmd, db, perIter, maxConc, draw, remote, out, LoggerVars, server, args, tasks, wg, resultsChan, results,
                    acct, saves, hist >>

\* the goroutine's deferred function: <-semaphore; wg.Done()
W_Exit_NoRelease(k) ==
    /\ cmd = "run"
    /\ wk[k].pc = "returned"
    /\ wg' = wg - 1
    /\ wk' = [wk EXCEPT ![k].pc = "done"]
    /\ UNCHANGED << now, disk, acct, resultsChan, semaphore >>
    /\ UNCHANGED << CmdVars, out >>

W_Exit(k) ==
    /\ cmd = "run"
    /\ wk[k].pc = "returned"
    /\ semaphore' = semaphore - 1
    /\ wg' = wg - 1
    /\ wk' = [wk EXCEPT ![k].pc = "done"]
    /\ UNCHANGED << now, disk, acct, resultsChan >>
    /\ UNCHANGED << CmdVars, out >>

\* wg.Wait()
R_Wait ==
    /\ cmd = "run"
    /\ lpc = "range"
    /\ pending = {}
    /\ WaitGroupIsZero(wg)
    /\ lpc' = "drain"
    /\ UNCHANGED << now, disk, cmd, db, perIter, maxConc, draw, remote, out, LoggerVars, server, args, tasks, pending, cur, semaphore, wg,
                    resultsChan, results, acct, wk, saves, hist >>

\* close(resultsChan); for result := range resultsChan { results = append(...) }
R_Drain ==
    /\ cmd = "run"
    /\ lpc = "drain"
    /\ results' = resultsChan
    /\ resultsChan' = << >>
    /\ lpc' = "save"
    /\ UNCHANGED << now, disk, cmd, db, perIter, maxConc, draw, remote, out, LoggerVars, server, args, tasks, pending, cur, semaphore, wg,
                    acct, wk, saves, hist >>

\* err = saveDatabase("db.json", db)
R_Save ==
    /\ cmd = "run"
    /\ lpc = "save"
    /\ disk' = Saved(db)
    /\ saves' = saves + 1
    /\ lpc' = "summary"
    /\ UNCHANGED << now, cmd, db, perIter, maxConc, draw, remote, out, LoggerVars, server, args, tasks, pending, cur, semaphore, wg,
                    resultsChan, results, acct, wk, hist >>

\* the summary and the end webhook
R_Summary ==
    /\ cmd = "run"
    /\ lpc = "summary"
    /\ lpc' = "done"
    /\ \E res \in HookResults(remote) :
         out' = [SendWebhook(out, res) EXCEPT
                    !.success  = BucketNames(results, "success"),
                    !.cooldown = BucketNames(results, "cooldown"),
                    !.errors   = BucketNames(results, "errors")]
    /\ UNCHANGED << now, disk, cmd, db, perIter, maxConc, draw, remote, LoggerVars, server, args, tasks, pending, cur,
                    semaphore, wg, resultsChan, results, acct, wk, saves, hist >>

\* ---------------------------------------------------------- runSolverForOne
\* load, if _, ok := db.Accounts[username]; !ok { log.Fatalf },
\* account := db.Accounts[username], processAccount(client, &account, ...)
O_Start(u) ==
    /\ cmd = "none"
    /\ lpc = "idle"
    /\ IF u \notin DOMAIN disk
       THEN UNCHANGED << cmd, lpc, db, cur, acct, wk, out >>
       ELSE /\ cmd' = "runOne"
            /\ lpc' = "call"
            /\ db' = disk
            /\ cur' = u
            /\ acct' = [acct EXCEPT ![u] = disk[u]]
            /\ wk' = [wk EXCEPT ![u] = [IdleWorker EXCEPT !.pc = "start", !.ref = u]]
            /\ \E res \in HookResults(remote) : out' = SendWebhook(out, res)
    /\ UNCHANGED << now, disk, perIter, maxConc, draw, remote, LoggerVars, server, args, tasks, pending, semaphore, wg,
                    resultsChan, results, saves, hist >>

\* result := <-resultsChan; close(resultsChan)
O_Receive ==
    /\ cmd = "runOne"
    /\ lpc = "call"
    /\ wk[cur].pc = "returned"
    /\ Len(resultsChan) > 0
    /\ results' = << Head(resultsChan) >>
    /\ resultsChan' = Tail(resultsChan)
    /\ lpc' = "save"
    /\ UNCHANGED << now, disk, cmd, db, perIter, maxConc, draw, remote, out, LoggerVars, server, args, tasks, pending, cur, semaphore, wg,
                    acct, wk, saves, hist >>

\* err = saveDatabase("db.json", db)
O_Save ==
    /\ cmd = "runOne"
    /\ lpc = "save"
    /\ disk' = Saved(db)
    /\ saves' = saves + 1
    /\ lpc' = "summary"
    /\ UNCHANGED << now, cmd, db, perIter, maxConc, draw, remote, out, LoggerVars, server, args, tasks, pending, cur, semaphore, wg,
                    resultsChan, results, acct, wk, hist >>

\* the summary webhook; the process exits
O_Summary ==
    /\ cmd = "runOne"
    /\ lpc = "summary"
    /\ hist' = [hist EXCEPT ![cur] =
                  [ran |-> TRUE, ok |-> wk[cur].finalError = ErrNil,
                   ppd |-> wk[cur].strategy.PuzzlesPerDay,
                   premium |-> acct[cur].IsPremium, endedAt |-> now]]
    /\ cmd' = "none"
    /\ lpc' = "idle"
    /\ db' = NoAccounts
    /\ cur' = 0
    /\ results' = << >>
    /\ acct' = [s \in Slots |-> NullAccount]
    /\ wk' = [k \in Keys |-> IdleWorker]
    /\ saves' = 0
    /\ out' = NoOut
    /\ UNCHANGED << now, disk, perIter, maxConc, draw, remote, LoggerVars, server, args, tasks, pending, semaphore, wg,
                    resultsChan >>

\* the clock
Tick ==
    /\ now < MaxNow
    /\ now' = now + 1
    /\ UNCHANGED << disk, cmd, lpc, db, perIter, maxConc, draw, remote, out, LoggerVars, server, args, tasks, pending, cur, semaphore, wg,
                    resultsChan, results, acct, wk, saves, hist >>


\* ------------------------------------------------------------------ Logger
\* l.mu.Lock() goes through when no goroutine holds the mutex
MutexFree_Always(m) == TRUE

MutexFree(m) == m = 0

\* defer l.mu.Unlock()
Unlock_Forgotten(m) == m

Unlock(m) == 0

\* AddLine: if _, exists := l.persistentLines[key]; !exists { append }
KeysAfterAdd_MoveToEnd(keys, lines, key) ==
    LET Other(k) == k # key IN Append(SelectSeq(keys, Other), key)

KeysAfterAdd_Always(keys, lines, key) == Append(keys, key)

KeysAfterAdd(keys, lines, key) ==
    IF key \in DOMAIN lines THEN keys ELSE Append(keys, key)

\* the index of the first k == key in keys (0: none)
FirstIndex(keys, key) ==
    IF \E i \in 1..Len(keys) : keys[i] = key
    THEN CHOOSE i \in 1..Len(keys) :
             keys[i] = key /\ \A j \in 1..(i - 1) : keys[j] # key
    ELSE 0

\* RemoveLine: the loop that cuts the first k == key out of l.orderedKeys
KeysAfterRemove_Keep(keys, key) == keys

KeysAfterRemove(keys, key) ==
    LET i == FirstIndex(keys, key)
    IN IF i = 0 THEN keys
       ELSE SubSeq(keys, 1, i - 1) \o SubSeq(keys, i + 1, Len(keys))

\* l.persistentLines[key] = value
LinesAfterAdd(lines, key, val) ==
    [k \in DOMAIN lines \cup {key} |-> IF k = key THEN val ELSE lines[k]]

\* delete(l.persistentLines, key)
LinesAfterRemove_Keep(lines, key) == lines

LinesAfterRemove(lines, key) == [k \in DOMAIN lines \ {key} |-> lines[k]]

\* l.persistentLines[key] as updateDisplay reads it: "" for a missing key
Line(lines, key) == IF key \in DOMAIN lines THEN lines[key] ELSE ""

\* ansiCleanUp(n): the last n lines of the terminal are erased
ansiCleanUp(d, n) == IF n >= Len(d) THEN << >> ELSE SubSeq(d, 1, Len(d) - n)

\* updateDisplay: for _, key := range l.orderedKeys { fmt.Println(...) }
Rendered(keys, lines) == [i \in 1..Len(keys) |-> Line(lines, keys[i])]

\* a goroutine calls a method of the Logger, with a key among keys and a
\* line among texts
L_CallOn(c, keys, texts) ==
    /\ callers[c].pc = "idle"
    /\ \E op \in LogOps :
       \E key \in IF op \in {"AddLine", "RemoveLine"} THEN keys ELSE {""} :
       \E val \in IF op = "AddLine" THEN texts ELSE {""} :
          callers' = [callers EXCEPT ![c] = [pc |-> "lock", op |-> op, key |-> key,
                                             val |-> val]]
    /\ UNCHANGED << persistentLines, orderedKeys, lastUpdateLines, mu, display, lastOp >>
    /\ UNCHANGED << RunVars, server, args, tasks >>

L_Call(c) == L_CallOn(c, LogKeys, LineTexts)

\* l.mu.Lock()
L_Lock(c) ==
    /\ callers[c].pc = "lock"
    /\ MutexFree(mu)
    /\ mu' = c
    /\ callers' = [callers EXCEPT ![c].pc = "body"]
    /\ UNCHANGED << persistentLines, orderedKeys, lastUpdateLines, display, lastOp >>
    /\ UNCHANGED << RunVars, server, args, tasks >>

\* the statements of the method between the Lock and its updateDisplay
L_Body(c) ==
    /\ callers[c].pc = "body"
    /\ LET op  == callers[c].op
           key == callers[c].key
       IN CASE op = "AddLine" ->
                 /\ orderedKeys' = KeysAfterAdd(orderedKeys, persistentLines, key)
                 /\ persistentLines' = LinesAfterAdd(persistentLines, key, callers[c].val)
                 /\ lastOp' = [lastOp EXCEPT ![key] = "add"]
                 /\ callers' = [callers EXCEPT ![c].pc = "erase"]
                 /\ UNCHANGED << lastUpdateLines, display >>
            [] op = "RemoveLine" ->
                 /\ persistentLines' = LinesAfterRemove(persistentLines, key)
                 /\ orderedKeys' = KeysAfterRemove(orderedKeys, key)
                 /\ lastOp' = [lastOp EXCEPT ![key] = "remove"]
                 /\ callers' = [callers EXCEPT ![c].pc = "erase"]
                 /\ UNCHANGED << lastUpdateLines, display >>
            [] op \in {"Printf", "Println"} ->
                 \* the text itself scrolls away above the status lines
                 /\ display' = IF lastUpdateLines > 0
                               THEN ansiCleanUp(display, lastUpdateLines) ELSE display
                 /\ lastUpdateLines' = 0
                 /\ callers' = [callers EXCEPT ![c].pc = "erase"]
                 /\ UNCHANGED << persistentLines, orderedKeys, lastOp >>
            [] op = "ClearAll" ->
                 \* nothing is erased: the lines drawn before stay on the
                 \* terminal, out of reach of the next update
                 /\ persistentLines' = NoLines
                 /\ orderedKeys' = << >>
                 /\ lastUpdateLines' = 0
                 /\ display' = << >>
                 /\ lastOp' = [k \in LogKeys |->
                                 IF k \in DOMAIN persistentLines THEN "remove" ELSE lastOp[k]]
                 /\ callers' = [callers EXCEPT ![c].pc = "unlock"]
            [] OTHER ->
                 /\ callers' = [callers EXCEPT ![c].pc = "erase"]
                 /\ UNCHANGED << persistentLines, orderedKeys, lastUpdateLines, display,
                                 lastOp >>
    /\ UNCHANGED mu
    /\ UNCHANGED << RunVars, server, args, tasks >>

\* updateDisplay: if l.lastUpdateLines > 0 { ansiCleanUp(l.lastUpdateLines) }
L_Erase(c) ==
    /\ callers[c].pc = "erase"
    /\ display' = IF lastUpdateLines > 0
                  THEN ansiCleanUp(display, lastUpdateLines) ELSE display
    /\ callers' = [callers EXCEPT ![c].pc = "draw"]
    /\ UNCHANGED << persistentLines, orderedKeys, lastUpdateLines, mu, lastOp >>
    /\ UNCHANGED << RunVars, server, args, tasks >>

\* updateDisplay: the lines are printed, l.lastUpdateLines = len(l.orderedKeys)
L_Draw(c) ==
    /\ callers[c].pc = "draw"
    /\ display' = display \o Rendered(orderedKeys, persistentLines)
    /\ lastUpdateLines' = Len(orderedKeys)
    /\ callers' = [callers EXCEPT ![c].pc = "unlock"]
    /\ UNCHANGED << persistentLines, orderedKeys, mu, lastOp >>
    /\ UNCHANGED << RunVars, server, args, tasks >>

\* the deferred l.mu.Unlock(); the method returns
L_Unlock(c) ==
    /\ callers[c].pc = "unlock"
    /\ mu' = Unlock(mu)
    /\ callers' = [callers EXCEPT ![c] = IdleCaller]
    /\ UNCHANGED << persistentLines, orderedKeys, lastUpdateLines, display, lastOp >>
    /\ UNCHANGED << RunVars, server, args, tasks >>

\* ------------------------------------------------ accounts refresh / prune
\* resp.Status of the answers to the membership lookup
StatusOK           == <<"200", "OK">>
StatusForbidden    == <<"403", "Forbidden">>
StatusUnauthorized == <<"401", "Unauthorized">>

\* what the remote answers to the three lookups of one refreshAccount call:
\* status is the membership answer's status line (<< >>: client.Do failed),
\* profile is "ok", "empty" (an object without a username) or "error",
\* stats is "ok" or "error" and Rating the rating of an answer that parsed
Script(status, free, profile, stats, rating) ==
    [status |-> status, IsFree |-> free, profile |-> profile, stats |-> stats,
     Rating |-> rating]

RefreshScripts ==
    { Script(StatusOK, TRUE, "ok", "ok", 0),
      Script(StatusOK, FALSE, "ok", "ok", MaxRating),
      Script(StatusForbidden, TRUE, "ok", "ok", 0),
      Script(StatusUnauthorized, TRUE, "ok", "ok", 0),
      Script(<< >>, TRUE, "ok", "ok", 0),
      Script(StatusOK, FALSE, "error", "ok", 0),
      Script(StatusOK, TRUE, "empty", "ok", 0),
      Script(StatusOK, FALSE, "ok", "error", 0) }

\* what the remote answers to a request that carries no cookie
NoCookieScripts ==
    { Script(StatusForbidden, TRUE, "ok", "ok", 0),
      Script(StatusUnauthorized, TRUE, "ok", "ok", 0) }

\* the remotes that answer the lookups for each cookie with one of scripts
Remotes(scripts) ==
    { [bodies |-> {}, webhook |-> "up", replies |-> rs] :
        rs \in { f \in [Slots -> scripts \cup NoCookieScripts] :
                    /\ f[NoCookie] \in NoCookieScripts
                    /\ \A k \in Keys : f[k] \in scripts } }

\* the expiry date of a membership answer: none for a free account, a date
\* yet to come for a premium one
ExpiryDate(free) == IF free THEN ZeroTime ELSE MaxNow + CooldownHours

\* getMembershipStatus: the error it returns, the IsFree and the ExpiryDate
\* of its answer
getMembershipStatus(reply) ==
    IF reply.status = << >>
    THEN [err |-> ErrTransport, IsFree |-> FALSE, ExpiryDate |-> ZeroTime]
    ELSE IF reply.status # StatusOK
         THEN [err |-> ErrMembership(reply.status), IsFree |-> FALSE,
               ExpiryDate |-> ZeroTime]
         ELSE [err |-> ErrNil, IsFree |-> reply.IsFree,
               ExpiryDate |-> ExpiryDate(reply.IsFree)]

\* refreshAccount: strings.Contains(err.Error(), "403 Forbidden")
InvalidatesCookie_Never(err) == FALSE

InvalidatesCookie(err) == ContainsPhrase(ErrorText(err), <<"403", "Forbidden">>)

\* refreshAccount(client, &account): the account it leaves and the error it returns
refreshAccount_Atomic(account, reply) ==
    LET ms == getMembershipStatus(reply)
        a3 == [account EXCEPT !.IsPremium = ~ms.IsFree,
                              !.PremiumExpiry = ms.ExpiryDate,
                              !.Username = IF reply.profile = "empty" THEN 0 ELSE account.Cookie,
                              !.LastRating = reply.Rating]
    IN IF ms.err # ErrNil
       THEN [account |-> IF InvalidatesCookie(ms.err)
                         THEN [account EXCEPT !.Cookie = NoCookie] ELSE account,
             err |-> ms.err]
       ELSE IF reply.profile = "error" THEN [account |-> account, err |-> ErrProfile]
       ELSE IF reply.stats = "error" THEN [account |-> account, err |-> ErrStats]
       ELSE [account |-> a3, err |-> ErrNil]

refreshAccount(account, reply) ==
    LET ms == getMembershipStatus(reply)
        a1 == [account EXCEPT !.IsPremium = ~ms.IsFree, !.PremiumExpiry = ms.ExpiryDate]
        \* the profile names the owner of the cookie
        a2 == [a1 EXCEPT !.Username = IF reply.profile = "empty" THEN 0 ELSE account.Cookie]
        a3 == [a2 EXCEPT !.LastRating = reply.Rating]
    IN IF ms.err # ErrNil
       THEN [account |-> IF InvalidatesCookie(ms.err)
                         THEN [account EXCEPT !.Cookie = NoCookie] ELSE account,
             err |-> ms.err]
       ELSE IF reply.profile = "error" THEN [account |-> a1, err |-> ErrProfile]
       ELSE IF reply.stats = "error" THEN [account |-> a2, err |-> ErrStats]
       ELSE [account |-> a3, err |-> ErrNil]

\* pruneAccountsCmd: if account.Cookie == "" { delete(db.Accounts, username) }
PruneRemoves_Never(account) == FALSE

PruneRemoves(account) == account.Cookie = NoCookie

\* d without the entry of key k
Without(d, k) == [j \in DOMAIN d \ {k} |-> d[j]]

AccountVars == << now, perIter, maxConc, draw, remote, out, LoggerVars, server, tasks, semaphore, wg,
                 resultsChan, acct, wk, hist >>

\* refreshAccounts: loadDatabase; without accounts a message and return
F_Start ==
    /\ cmd = "none"
    /\ lpc = "idle"
    /\ cmd' = "refresh"
    /\ db' = disk
    /\ pending' = DOMAIN disk
    /\ results' = << >>
    /\ lpc' = IF DOMAIN disk = {} THEN "done" ELSE "range"
    /\ UNCHANGED << disk, saves, cur, args, AccountVars >>

\* for username, account := range db.Accounts {
\*     err = refreshAccount(client, &account); the error is logged;
\*     db.Accounts[username] = account }
F_Account(k) ==
    /\ cmd = "refresh"
    /\ lpc = "range"
    /\ k \in pending
    /\ LET r == refreshAccount(db[k], remote.replies[db[k].Cookie])
       IN /\ db' = [db EXCEPT ![k] = r.account]
          /\ results' = IF r.err # ErrNil
                        THEN Append(results, [key |-> k, Error |-> r.err])
                        ELSE results
    /\ pending' = pending \ {k}
    /\ UNCHANGED << disk, cmd, lpc, saves, cur, args, AccountVars >>

\* saveDatabase("db.json", db)
F_Save ==
    /\ cmd = "refresh"
    /\ lpc = "range"
    /\ pending = {}
    /\ disk' = Saved(db)
    /\ saves' = saves + 1
    /\ lpc' = "done"
    /\ UNCHANGED << cmd, db, pending, results, cur, args, AccountVars >>

\* pruneAccountsCmd: loadDatabase; without accounts a message and return
N_Start ==
    /\ cmd = "none"
    /\ lpc = "idle"
    /\ cmd' = "prune"
    /\ db' = disk
    /\ pending' = DOMAIN disk
    /\ lpc' = IF DOMAIN disk = {} THEN "done" ELSE "range"
    /\ UNCHANGED << disk, results, saves, cur, args, AccountVars >>

\* one iteration of for username, account := range db.Accounts
N_Account(k) ==
    /\ cmd = "prune"
    /\ lpc = "range"
    /\ k \in pending
    /\ db' = IF PruneRemoves(db[k]) THEN Without(db, k) ELSE db
    /\ pending' = pending \ {k}
    /\ UNCHANGED << disk, cmd, lpc, results, saves, cur, args, AccountVars >>

\* saveDatabase("db.json", db) and the list of the remaining accounts
N_Save ==
    /\ cmd = "prune"
    /\ lpc = "range"
    /\ pending = {}
    /\ disk' = Saved(db)
    /\ saves' = saves + 1
    /\ lpc' = "done"
    /\ UNCHANGED << cmd, db, pending, results, cur, args, AccountVars >>

\* ------------------------------------------------------- changestrategy
\* the account names a command line may list: those of the store and one more
ListedNames == 1..(MaxAccounts + 1)

\* strategyName := args[0]; accounts := args[1:]; loadDatabase (without
\* accounts a message and return); loadStrategies; an unknown strategy is fatal
G_Start(strategyName, accounts) ==
    /\ cmd = "none"
    /\ lpc = "idle"
    /\ cmd' = "changestrategy"
    /\ args' = [NoArgs EXCEPT !.strategyName = strategyName, !.accounts = accounts]
    /\ db' = disk
    /\ cur' = 1
    /\ lpc' = IF DOMAIN disk = {} THEN "done"
              ELSE IF strategyName \notin StrategyNames THEN "fatal"
              ELSE "range"
    /\ UNCHANGED << disk, pending, results, saves, AccountVars >>

\* one iteration of for _, accountName := range accounts; cur is the index
\* of the name in turn; a name the store lacks is fatal
G_Account_SkipMissing ==
    /\ cmd = "changestrategy"
    /\ lpc = "range"
    /\ cur <= Len(args.accounts)
    /\ LET accountName == args.accounts[cur]
       IN db' = IF accountName \notin DOMAIN db THEN db
                ELSE [db EXCEPT ![accountName].StrategyName = args.strategyName]
    /\ cur' = cur + 1
    /\ UNCHANGED << disk, cmd, lpc, args, pending, results, saves, AccountVars >>

G_Account ==
    /\ cmd = "changestrategy"
    /\ lpc = "range"
    /\ cur <= Len(args.accounts)
    /\ LET accountName == args.accounts[cur]
       IN IF accountName \notin DOMAIN db
          THEN /\ lpc' = "fatal"
               /\ UNCHANGED << db, cur >>
          ELSE /\ db' = [db EXCEPT ![accountName].StrategyName = args.strategyName]
               /\ cur' = cur + 1
               /\ UNCHANGED lpc
    /\ UNCHANGED << disk, cmd, args, pending, results, saves, AccountVars >>

\* saveDatabase("db.json", db)
G_Save ==
    /\ cmd = "changestrategy"
    /\ lpc = "range"
    /\ cur > Len(args.accounts)
    /\ disk' = Saved(db)
    /\ saves' = saves + 1
    /\ lpc' = "done"
    /\ UNCHANGED << cmd, db, args, cur, pending, results, AccountVars >>

\* ------------------------------------------------------------ accounts add
\* a pasted cURL command: where it carries the cookie ("-b", "-H" or
\* nowhere) and the cookie
Curls ==
    { [form |-> f, cookie |-> c] : f \in {"-b", "-H"}, c \in Slots }
        \cup { [form |-> "none", cookie |-> NoCookie] }

\* parseCookieFromCurl: -b or --cookie with a cookie that is not empty, else
\* a cookie header with any cookie, else an error
parseCookieFromCurl(curl) ==
    IF curl.form = "-b" /\ curl.cookie # NoCookie
    THEN [cookie |-> curl.cookie, err |-> FALSE]
    ELSE IF curl.form = "-H"
         THEN [cookie |-> curl.cookie, err |-> FALSE]
         ELSE [cookie |-> NoCookie, err |-> TRUE]

\* newAccount := Account{Username: "", Cookie: cookie, StrategyName: "default", ...}
NewAccount(cookie) ==
    [Username |-> 0, IsPremium |-> FALSE, StrategyName |-> "default",
     LastRun |-> ZeroTime, Cookie |-> cookie, LastRating |-> 0,
     PremiumExpiry |-> ZeroTime]

\* db.Accounts[newAccount.Username] = newAccount
WithAccount(d, a) ==
    [j \in DOMAIN d \cup {a.Username} |-> IF j = a.Username THEN a ELSE d[j]]

\* addAccount: read the cURL command, parseCookieFromCurl (an error is
\* fatal), loadDatabase
D_Start(curl) ==
    /\ cmd = "none"
    /\ lpc = "idle"
    /\ cmd' = "add"
    /\ LET parsed == parseCookieFromCurl(curl)
       IN IF parsed.err
          THEN /\ lpc' = "fatal"
               /\ UNCHANGED << args, db >>
          ELSE /\ lpc' = "refresh"
               /\ args' = [NoArgs EXCEPT !.cookie = parsed.cookie]
               /\ db' = disk
    /\ UNCHANGED << disk, cur, pending, results, saves, AccountVars >>

\* refreshAccount(client, &newAccount), its error dropped; an account of
\* that username in the store ends the command (os.Exit(1)), else
\* db.Accounts[newAccount.Username] = newAccount
D_Refresh ==
    /\ cmd = "add"
    /\ lpc = "refresh"
    /\ LET r == refreshAccount(NewAccount(args.cookie), remote.replies[args.cookie])
       IN IF r.account.Username \in DOMAIN db
          THEN /\ lpc' = "fatal"
               /\ UNCHANGED db
          ELSE /\ lpc' = "save"
               /\ db' = WithAccount(db, r.account)
    /\ UNCHANGED << disk, cmd, args, cur, pending, results, saves, AccountVars >>

\* saveDatabase("db.json", db)
D_Save ==
    /\ cmd = "add"
    /\ lpc = "save"
    /\ disk' = Saved(db)
    /\ saves' = saves + 1
    /\ lpc' = "done"
    /\ UNCHANGED << cmd, db, args, cur, pending, results, AccountVars >>

\* the command returns and the process exits; results stays as the record
\* of what the last refresh logged
A_Exit ==
    /\ cmd \in {"refresh", "prune"}
    /\ lpc = "done"
    /\ cmd' = "none"
    /\ lpc' = "idle"
    /\ db' = NoAccounts
    /\ saves' = 0
    /\ UNCHANGED << disk, cur, args, pending, results, AccountVars >>

\* --------------------------------------------------- the engine relay server
\* the websocket connections, and a user the server does not hold
Conns == 1..MaxConns

NoUser == [pc |-> "none", authenticated |-> FALSE, hasLock |-> FALSE]

\* EngineUser as handleWebSocket builds it; pc is where the connection's
\* readPump is: "read" in conn.ReadMessage, "analyse" in engine.AnalyzePosition,
\* "send" in the send on engineInputChannel, "closed" after its deferred function.
\* (subscribed, which only writePump reads, and that for messages of a channel
\* nothing writes to, is left out.)
NewUser(bypass, local) ==
    [pc |-> "read", authenticated |-> (bypass /\ local), hasLock |-> FALSE]

\* the messages a client may send: the first word, and for auth whether the
\* passkey is the server's
Messages ==
    { "iam", "auth", "auth passkey", "auth wrong", "lock", "unlock", "sub", "unsub",
      "position", "go", "go movetime", "hello", "" }

\* the users map: the connections whose deferred function has not run
Connected(s) == { c \in Conns : s.users[c].pc \notin {"none", "closed"} }

\* the connections whose user has hasLock set
LockHolders(s) == { c \in Connected(s) : s.users[c].hasLock }

\* case "lock": if !user.authenticated && s.requireAuth { error: not authenticated }
LockNeedsAuth(s, c) == ~s.users[c].authenticated /\ s.requireAuth

\* case "lock": if s.engineOwner != nil && s.engineOwner != conn { error: engine
\* locked by another user }
LockedByAnother_Never(s, c) == FALSE

LockedByAnother(s, c) == s.engineOwner # 0 /\ s.engineOwner # c

\* case "unlock": if s.engineOwner == conn
OwnsEngine(s, c) == s.engineOwner = c

\* case "position", case "go": if !user.hasLock { error: engine not locked }
EngineNotLocked(s, c) == ~s.users[c].hasLock

\* s.engineInputChannel <- msg goes through when the buffer has room; nothing
\* receives from the channel
ChanHasRoom(n) == n < InputChanCap

\* handleMessage(conn, user, msg): the server it leaves.  The lock and unlock
\* cases run under engineLock, so each is one step.
handleMessage(s, c, msg) ==
    CASE msg \in {"auth passkey"} ->
            [s EXCEPT !.users[c].authenticated = TRUE]
      [] msg = "lock" ->
            IF LockNeedsAuth(s, c) \/ LockedByAnother(s, c) THEN s
            ELSE [s EXCEPT !.engineOwner = c, !.users[c].hasLock = TRUE]
      [] msg = "unlock" ->
            IF OwnsEngine(s, c)
            THEN [s EXCEPT !.engineOwner = 0, !.users[c].hasLock = FALSE]
            ELSE s
      [] msg = "position" ->
            IF EngineNotLocked(s, c) THEN s
            ELSE IF ChanHasRoom(s.engineInputChannel)
                 THEN [s EXCEPT !.engineInputChannel = @ + 1]
                 ELSE [s EXCEPT !.users[c].pc = "send"]
      [] msg = "go movetime" ->
            IF EngineNotLocked(s, c) THEN s
            ELSE [s EXCEPT !.users[c].pc = "analyse"]
      [] OTHER -> s

EngineRest == << RunVars, LoggerVars, args, tasks >>

\* handleWebSocket: the upgrade, the user, s.users[conn] = user, the two pumps
HandleWebSocket(c, local) ==
    /\ server.users[c].pc = "none"
    /\ server' = [server EXCEPT !.users[c] = NewUser(server.localhostBypass, local)]
    /\ UNCHANGED EngineRest

\* readPump: conn.ReadMessage() returned a message; handleMessage
ReadPump_Message(c, msg) ==
    /\ server.users[c].pc = "read"
    /\ server' = handleMessage(server, c, msg)
    /\ UNCHANGED EngineRest

\* engine.AnalyzePosition returned; bestmove or the error is written back
ReadPump_Analysed(c) ==
    /\ server.users[c].pc = "analyse"
    /\ server' = [server EXCEPT !.users[c].pc = "read"]
    /\ UNCHANGED EngineRest

\* readPump: conn.ReadMessage() failed (the client left, or writePump closed
\* the connection); break, and the deferred function under usersMu.  Its write
\* of engineOwner is not ordered with the handlers' reads under engineLock: a
\* lock handler sees the owner either before or after it, which is this step
\* taken after or before that handler's.
ReadPump_Close(c) ==
    /\ server.users[c].pc = "read"
    /\ server' = [server EXCEPT
                    !.users[c] = [NoUser EXCEPT !.pc = "closed"],
                    !.engineOwner = IF server.users[c].hasLock /\ server.engineOwner = c
                                    THEN 0 ELSE @]
    /\ UNCHANGED EngineRest

\* ------------------------------------------- processAccount's countdown
\* The status line of one account through a paced run: the worker's calls of
\* the Logger, the countdown goroutines it starts and the clock, which here
\* counts ticks of 1/TicksPerSecond s.  A call of the Logger is one step, its
\* methods excluding one another under the mutex.
Worker    == 1
StatusKey == "a"          \* account.Username, the key of the status line

\* the paced strategies of the catalog that stop after two puzzles: one
\* delay, between the first session and the second
CountdownStrategies == {"paced", "pacedZero"}

\* Logger.AddLine(key, value), Logger.RemoveLine(key)
AddLine(key, value) ==
    /\ orderedKeys' = KeysAfterAdd(orderedKeys, persistentLines, key)
    /\ persistentLines' = LinesAfterAdd(persistentLines, key, value)
    /\ display' = ansiCleanUp(display, lastUpdateLines)
                      \o Rendered(orderedKeys', persistentLines')
    /\ lastUpdateLines' = Len(orderedKeys')
    /\ lastOp' = [lastOp EXCEPT ![key] = "add"]
    /\ UNCHANGED << mu, callers >>

RemoveLine(key) ==
    /\ persistentLines' = LinesAfterRemove(persistentLines, key)
    /\ orderedKeys' = KeysAfterRemove(orderedKeys, key)
    /\ display' = ansiCleanUp(display, lastUpdateLines)
                      \o Rendered(orderedKeys', persistentLines')
    /\ lastUpdateLines' = Len(orderedKeys')
    /\ lastOp' = [lastOp EXCEPT ![key] = "remove"]
    /\ UNCHANGED << mu, callers >>

\* d.Round(time.Second): the nearest whole second, halves away from zero
RoundToSecond(t) ==
    LET a == IF t < 0 THEN 0 - t ELSE t
        r == a % TicksPerSecond
        n == IF 2 * r < TicksPerSecond THEN a - r ELSE a - r + TicksPerSecond
    IN IF t < 0 THEN 0 - n ELSE n

\* go func() { ... }(): the goroutine before its first look at the clock;
\* seen is the time of its last look, wake the end of its sleep in progress
NewTask(start, delay) ==
    [pc |-> "first", deadline |-> start + delay, seen |-> ZeroTime, wake |-> ZeroTime]

\* time.Until(startTime.Add(delay)), rounded the first time; for timeLeft > 0
TimeLeft(task, t) ==
    IF task.pc = "first" THEN RoundToSecond(task.deadline - t) ELSE task.deadline - t

LoopGoesOn_Once(task, t) == task.pc = "first" /\ TimeLeft(task, t) > 0

LoopGoesOn(task, t) == TimeLeft(task, t) > 0

CountdownRest ==
    << disk, cmd, lpc, db, perIter, maxConc, draw, remote, out, server, args, pending, cur,
       semaphore, wg, resultsChan, results, acct, saves, hist >>

\* processAccount, the strategy found: AddLine("Starting with strategy ...").
\* (The stats lookups and the cooldown gate, which add no line when they
\* succeed, are left to the P_ steps.)
K_Start(name) ==
    /\ wk[Worker].pc = "idle"
    /\ wk' = [wk EXCEPT ![Worker].pc = "loop", ![Worker].strategy = strategies[name]]
    /\ AddLine(StatusKey, "Starting")
    /\ UNCHANGED << now, tasks, CountdownRest >>

\* for !shouldStop { AddLine("Solving puzzle ...")
K_Session ==
    /\ wk[Worker].pc = "loop"
    /\ wk[Worker].fetches < MaxSessions
    /\ wk' = [wk EXCEPT ![Worker].pc = "solve", ![Worker].fetches = @ + 1]
    /\ AddLine(StatusKey, "Solving")
    /\ UNCHANGED << now, tasks, CountdownRest >>

\* solvePuzzleForAccount failed: AddLine("Error solving puzzle"); break
K_SolveError ==
    /\ wk[Worker].pc = "solve"
    /\ wk' = [wk EXCEPT ![Worker].pc = "report", ![Worker].finalError = ErrFetch]
    /\ AddLine(StatusKey, "Error")
    /\ UNCHANGED << now, tasks, CountdownRest >>

\* solvePuzzleForAccount succeeded: solvedCount++, the stop predicate and, the
\* run going on in a paced strategy, delay, startTime, go func() {...}() and
\* the start of time.Sleep(delay); seconds is solvedPuzzle.TimeTaken
K_Solved(seconds) ==
    /\ wk[Worker].pc = "solve"
    /\ LET s      == wk[Worker].strategy
           solved == wk[Worker].solvedCount + 1
           stop   == ShouldStop(s, solved, 0)
           delay  == seconds * TicksPerSecond
       IN IF NeedsDelay(s, stop)
          THEN /\ wk' = [wk EXCEPT ![Worker].pc = "sleep", ![Worker].solvedCount = solved,
                                   ![Worker].submitAt = now, ![Worker].delay = delay]
               /\ tasks' = Append(tasks, NewTask(now, delay))
          ELSE /\ seconds = 0
               /\ wk' = [wk EXCEPT ![Worker].pc = IF stop THEN "report" ELSE "loop",
                                   ![Worker].solvedCount = solved]
               /\ UNCHANGED tasks
    /\ UNCHANGED << now, LoggerVars, CountdownRest >>

\* time.Sleep(delay) returns
K_Wake ==
    /\ wk[Worker].pc = "sleep"
    /\ now >= wk[Worker].submitAt + wk[Worker].delay
    /\ wk' = [wk EXCEPT ![Worker].pc = "loop", ![Worker].delay = 0]
    /\ UNCHANGED << now, tasks, LoggerVars, CountdownRest >>

\* after the loop: the final stats, the webhook, logger.RemoveLine(account.Username)
K_Report ==
    /\ wk[Worker].pc = "report"
    /\ wk' = [wk EXCEPT ![Worker].pc = "returned"]
    /\ RemoveLine(StatusKey)
    /\ UNCHANGED << now, tasks, CountdownRest >>

\* the goroutine looks at the clock: at its start, and after each sleep
T_Check(i) ==
    /\ i \in 1..Len(tasks)
    /\ \/ tasks[i].pc = "first"
       \/ tasks[i].pc = "sleep" /\ now >= tasks[i].wake
    /\ tasks' = [tasks EXCEPT ![i].pc = IF LoopGoesOn(tasks[i], now) THEN "add" ELSE "done",
                              ![i].seen = now, ![i].wake = ZeroTime]
    /\ UNCHANGED << now, wk, LoggerVars, CountdownRest >>

\* logger.AddLine(account.Username, "... Waiting for ..."); time.Sleep(time.Second)
T_Add(i) ==
    /\ i \in 1..Len(tasks)
    /\ tasks[i].pc = "add"
    /\ tasks' = [tasks EXCEPT ![i].pc = "sleep", ![i].wake = now + TicksPerSecond]
    /\ AddLine(StatusKey, "Waiting")
    /\ UNCHANGED << now, wk, CountdownRest >>

\* the clock ticks while a sleep is in progress
Sleeping(t) ==
    \/ wk[Worker].pc = "sleep" /\ t < wk[Worker].submitAt + wk[Worker].delay
    \/ \E i \in 1..Len(tasks) : tasks[i].pc = "sleep" /\ t < tasks[i].wake

T_Tick ==
    /\ Sleeping(now)
    /\ now' = now + 1
    /\ UNCHANGED << wk, tasks, LoggerVars, CountdownRest >>

\* ----------------------------------------------------------- specifications
\* the account records a store may hold under username k
RunProfiles(k) ==
    { MkAccount(k, FALSE, "quick", ZeroTime),
      MkAccount(k, FALSE, "quick", NowStart - 1),
      MkAccount(k, FALSE, "nosuch", ZeroTime) }

OneProfiles(k) ==
    { MkAccount(k, prem, strat, last) :
        prem \in BOOLEAN,
        strat \in GateStrategyNames \cup {"nosuch"},
        last \in {ZeroTime, NowStart - CooldownHours, NowStart - CooldownHours + 1,
                  NowStart - 1} }

\* the stores of n accounts drawn from recs, each keyed by its username
Stores(n, recs) ==
    { f \in [1..n -> recs] : \A k \in 1..n : f[k].Username = k }

InitProgram ==
    /\ now = NowStart
    /\ cmd = "none"
    /\ lpc = "idle"
    /\ db = NoAccounts
    /\ pending = {}
    /\ cur = 0
    /\ semaphore = 0
    /\ wg = 0
    /\ resultsChan = << >>
    /\ results = << >>
    /\ acct = [s \in Slots |-> NullAccount]
    /\ wk = [k \in Keys |-> IdleWorker]
    /\ saves = 0
    /\ hist = [k \in Keys |-> NoHist]
    /\ draw = NoDraw
    /\ out = NoOut
    /\ LoggerIdle
    /\ args = NoArgs
    /\ tasks = NoTasks

InitCommon ==
    /\ InitProgram
    /\ server = NoServer

\* `run` over a store of 1..MaxAccounts accounts
Init ==
    /\ InitCommon
    /\ remote = QuietRemote
    /\ \E n \in 1..MaxAccounts : disk \in Stores(n, UNION { RunProfiles(k) : k \in 1..n })
    /\ perIter \in BOOLEAN
    /\ maxConc \in 0..MaxLimit

Next ==
    \/ R_Start
    \/ R_Iter
    \/ R_Spawn
    \/ \E k \in Keys : ProcessAccount(k)
    \/ \E k \in Keys : W_Exit(k)
    \/ R_Wait
    \/ R_Drain
    \/ R_Save
    \/ R_Summary

Spec == Init /\ [][Next]_vars

\* `runOne`, again and again, over a store of one account while the clock runs
InitOne ==
    /\ InitCommon
    /\ remote = QuietRemote
    /\ disk \in Stores(1, OneProfiles(1))
    /\ perIter = TRUE
    /\ maxConc = 1

NextOne ==
    \/ \E u \in Keys : O_Start(u)
    \/ \E k \in Keys : ProcessAccount(k)
    \/ O_Receive
    \/ O_Save
    \/ O_Summary
    \/ Tick

SpecOne == InitOne /\ [][NextOne]_vars

\* `runOne`, again and again, on a free account that never ran, under every
\* strategy of the catalog and under a name the catalog lacks, or on one that
\* ran an hour ago.  (Spec and SpecOne hold no paced strategy, so the sleep is
\* a step of this specification only.)
LoopProfiles(k) ==
    { MkAccount(k, FALSE, strat, ZeroTime) : strat \in StrategyNames \cup {"nosuch"} }
        \cup { MkAccount(k, FALSE, "quick", NowStart - 1) }

InitLoop ==
    /\ InitCommon
    /\ remote = QuietRemote
    /\ disk \in Stores(1, LoopProfiles(1))
    /\ perIter = TRUE
    /\ maxConc = 1

NextLoop ==
    \/ \E u \in Keys : O_Start(u)
    \/ \E k \in Keys : ProcessAccount(k)
    \/ \E k \in Keys : P_Sleep(k)
    \/ O_Receive
    \/ O_Save
    \/ O_Summary

SpecLoop == InitLoop /\ [][NextLoop]_vars

\* `run`, one account at a time, against a remote that misbehaves: a fetch may
\* be answered with a body that holds no puzzle, the webhook may be unset or fail
FaultyRemotes == { [bodies |-> HostileBodies, webhook |-> w] : w \in {"unset", "up", "flaky"} }

InitFaulty ==
    /\ InitCommon
    /\ \E n \in 1..MaxAccounts : disk \in Stores(n, UNION { RunProfiles(k) : k \in 1..n })
    /\ perIter = TRUE
    /\ maxConc = 1
    /\ remote \in FaultyRemotes

SpecFaulty == InitFaulty /\ [][Next]_vars

\* `run` to its end: accounts that never ran under a strategy that stops after
\* one puzzle or under a name the catalog lacks, a remote that answers every
\* call, a fetch or a submit with a puzzle or with an error, and a scheduler
\* that lets every goroutine that can take a step take one
JoinProfiles(k) ==
    { MkAccount(k, FALSE, "quick", ZeroTime), MkAccount(k, FALSE, "nosuch", ZeroTime) }

InitJoin ==
    /\ InitCommon
    /\ \E n \in 1..MaxAccounts : disk \in Stores(n, UNION { JoinProfiles(k) : k \in 1..n })
    /\ perIter = TRUE
    /\ maxConc \in 0..MaxLimit
    /\ remote = QuietRemote

FairJoin ==
    /\ WF_vars(R_Iter)
    /\ WF_vars(R_Spawn)
    /\ \A k \in Keys : WF_vars(ProcessAccount(k))
    /\ \A k \in Keys : WF_vars(W_Exit(k))
    /\ WF_vars(R_Wait)
    /\ WF_vars(R_Drain)
    /\ WF_vars(R_Save)
    /\ WF_vars(R_Summary)

SpecJoin == InitJoin /\ [][Next]_vars /\ FairJoin

\* the engine server from its start, under each configuration, with up to
\* MaxConns connections that come, send messages and go
InitEngine ==
    /\ InitProgram
    /\ disk = NoAccounts
    /\ remote = QuietRemote
    /\ perIter = TRUE
    /\ maxConc = 1
    /\ \E ra \in BOOLEAN, lb \in BOOLEAN :
         server = [engineOwner |-> 0, engineInputChannel |-> 0, requireAuth |-> ra,
                   localhostBypass |-> lb, users |-> [c \in Conns |-> NoUser]]

NextEngine ==
    \/ \E c \in Conns : \E local \in BOOLEAN : HandleWebSocket(c, local)
    \/ \E c \in Conns : \E msg \in Messages : ReadPump_Message(c, msg)
    \/ \E c \in Conns : ReadPump_Analysed(c)
    \/ \E c \in Conns : ReadPump_Close(c)

SpecEngine == InitEngine /\ [][NextEngine]_vars

\* one paced run of processAccount with its countdown goroutines, every
\* goroutine that can take a step taking one in the end and the clock going on
InitCountdown ==
    /\ InitCommon
    /\ disk = NoAccounts
    /\ remote = QuietRemote
    /\ perIter = TRUE
    /\ maxConc = 1

NextCountdown ==
    \/ \E name \in CountdownStrategies : K_Start(name)
    \/ K_Session
    \/ K_SolveError
    \/ \E seconds \in 0..MaxDelay : K_Solved(seconds)
    \/ K_Wake
    \/ K_Report
    \/ \E i \in 1..MaxSessions : T_Check(i)
    \/ \E i \in 1..MaxSessions : T_Add(i)
    \/ T_Tick

FairCountdown ==
    /\ WF_vars(T_Tick)
    /\ \A i \in 1..MaxSessions : WF_vars(T_Check(i)) /\ WF_vars(T_Add(i))

SpecCountdown == InitCountdown /\ [][NextCountdown]_vars /\ FairCountdown

\* the Logger under MaxCallers goroutines that call its methods in any order
InitLog ==
    /\ InitCommon
    /\ disk = NoAccounts
    /\ perIter = TRUE
    /\ maxConc = 1
    /\ remote = QuietRemote

NextLog ==
    \/ \E c \in Callers : L_Call(c)
    \/ \E c \in Callers : L_Lock(c)
    \/ \E c \in Callers : L_Body(c)
    \/ \E c \in Callers : L_Erase(c)
    \/ \E c \in Callers : L_Draw(c)
    \/ \E c \in Callers : L_Unlock(c)

SpecLog == InitLog /\ [][NextLog]_vars

\* the Logger under callers that all work on one key: what a call waits for
\* is the lock, whatever its key and its line
NextLogOne ==
    \/ \E c \in Callers : L_CallOn(c, {"a"}, {"x"})
    \/ \E c \in Callers : L_Lock(c)
    \/ \E c \in Callers : L_Body(c)
    \/ \E c \in Callers : L_Erase(c)
    \/ \E c \in Callers : L_Draw(c)
    \/ \E c \in Callers : L_Unlock(c)

\* a goroutine inside a method keeps running, and sync.Mutex hands the lock
\* to a goroutine that has waited for it (its starvation mode)
FairLog ==
    \A c \in Callers :
        /\ WF_vars(L_Body(c) \/ L_Erase(c) \/ L_Draw(c) \/ L_Unlock(c))
        /\ SF_vars(L_Lock(c))

SpecLogFair == InitLog /\ [][NextLogOne]_vars /\ FairLog

\* `accounts refresh` and `accounts prune` in any order over a store of up to
\* MaxAccounts accounts, against a remote that answers each account's
\* lookups in one way throughout
InitAccounts ==
    /\ InitCommon
    /\ \/ disk = NoAccounts
       \/ \E n \in 1..MaxAccounts :
            disk \in Stores(n, { MkAccount(k, FALSE, "quick", ZeroTime) : k \in 1..n })
    /\ perIter = TRUE
    /\ maxConc = 1
    /\ remote \in Remotes(RefreshScripts)

NextAccounts ==
    \/ F_Start
    \/ \E k \in Slots : F_Account(k)
    \/ F_Save
    \/ N_Start
    \/ \E k \in Slots : N_Account(k)
    \/ N_Save
    \/ A_Exit

SpecAccounts == InitAccounts /\ [][NextAccounts]_vars

\* one command on a store as earlier commands may have left it: run, run of
\* one account, accounts refresh, prune and add, changestrategy
StoreProfiles(k) ==
    { MkAccount(k, FALSE, "quick", ZeroTime),
      MkAccount(k, FALSE, "quick", NowStart - 1),
      MkAccount(k, FALSE, "nosuch", ZeroTime),
      [MkAccount(k, FALSE, "quick", ZeroTime) EXCEPT !.Cookie = NoCookie] }

StoreScripts ==
    { Script(StatusOK, FALSE, "ok", "ok", MaxRating),
      Script(StatusForbidden, TRUE, "ok", "ok", 0),
      Script(<< >>, TRUE, "ok", "ok", 0) }

\* the command lines of changestrategy: a strategy name and one or two accounts
StrategyArgs == {"count", "nosuch"}
AccountArgs  ==
    { << a >> : a \in ListedNames } \cup { << a, b >> : a, b \in ListedNames }

InitStore ==
    /\ InitCommon
    /\ \/ disk = NoAccounts
       \/ \E n \in 1..MaxAccounts :
            disk \in Stores(n, UNION { StoreProfiles(k) : k \in 1..n })
    /\ perIter = TRUE
    /\ maxConc = 1
    /\ \E sc \in StoreScripts : remote \in Remotes({sc})

NextStore ==
    \/ R_Start
    \/ R_Iter
    \/ R_Spawn
    \/ \E k \in Keys : ProcessAccount(k)
    \/ \E k \in Keys : W_Exit(k)
    \/ R_Wait
    \/ R_Drain
    \/ R_Save
    \/ R_Summary
    \/ \E u \in Keys : O_Start(u)
    \/ O_Receive
    \/ O_Save
    \/ F_Start
    \/ \E k \in Slots : F_Account(k)
    \/ F_Save
    \/ N_Start
    \/ \E k \in Slots : N_Account(k)
    \/ N_Save
    \/ \E n \in StrategyArgs : \E l \in AccountArgs : G_Start(n, l)
    \/ G_Account
    \/ G_Save
    \/ \E curl \in Curls : D_Start(curl)
    \/ D_Refresh
    \/ D_Save

SpecStore == InitStore /\ [][NextStore]_vars

\* submitSolution's duration on its own: the time mode and the value of
\* rand.Float64() are the inputs, the step draws the duration and formats it
\* for the payload.
D_Draw ==
    /\ ~draw.drawn
    /\ draw' = [draw EXCEPT !.drawn = TRUE,
                            !.duration = AttemptDuration(draw.mode, draw.u),
                            !.sent = FormatMillis(AttemptDuration(draw.mode, draw.u))]
    /\ UNCHANGED << now, disk, cmd, lpc, db, perIter, maxConc, remote, out, LoggerVars, server, args, tasks,
                    pending, cur, semaphore, wg, resultsChan, results, acct, wk,
                    saves, hist >>

InitDraw ==
    /\ now = NowStart
    /\ cmd = "none"
    /\ lpc = "idle"
    /\ db = NoAccounts
    /\ pending = {}
    /\ cur = 0
    /\ semaphore = 0
    /\ wg = 0
    /\ resultsChan = << >>
    /\ results = << >>
    /\ acct = [s \in Slots |-> NullAccount]
    /\ wk = [k \in Keys |-> IdleWorker]
    /\ saves = 0
    /\ hist = [k \in Keys |-> NoHist]
    /\ disk = NoAccounts
    /\ perIter = TRUE
    /\ maxConc = 1
    /\ remote = QuietRemote
    /\ out = NoOut
    /\ LoggerIdle
    /\ server = NoServer
    /\ args = NoArgs
    /\ tasks = NoTasks
    /\ draw \in { [NoDraw EXCEPT !.mode = m, !.u = u] : m \in TimeModes, u \in DrawGrid }

NextDraw == D_Draw

SpecDraw == InitDraw /\ [][NextDraw]_vars

\* ------------------------------------------------------------------ claims
RunningPCs == {"start", "stats0", "gate", "loop", "fetch", "submit", "sleep",
               "afterLoop", "finalStats", "report"}

Running == { k \in Keys : wk[k].pc \in RunningPCs }

Launched == { k \in Keys : wk[k].pc # "idle" }

\* the limit as the configuration states it
ConfiguredLimit == IF maxConc <= 0 THEN 1 ELSE maxConc

\* what the gate of k's run read, judged by the rule of the specification
GateSawRecentFreeRun(k) ==
    /\ wk[k].gate.seen
    /\ ~wk[k].gate.IsPremium
    /\ wk[k].gate.LastRun # ZeroTime
    /\ wk[k].gate.at - wk[k].gate.LastRun < 24

RunBlocked(k) == wk[k].finalError.kind = "on cooldown until"

\* C1: at every instant of a run the number of accounts whose processAccount
\* is executing is at most the limit N (max_concurrent_accounts, or 1 when
\* that is <= 0).
C1_ConcurrencyCap == Cardinality(Running) <= ConfiguredLimit

\* the cap binds: N workers run while the launcher waits for a slot
C1_Witness ==
    /\ cmd = "run"
    /\ lpc = "acquire"
    /\ Cardinality(Running) = ConfiguredLimit
    /\ semaphore = ConfiguredLimit

\* C2: after runSolver completes, the record persisted for every account
\* equals the final copy held by that account's worker; an account whose run
\* succeeded under a strategy with puzzle-count target > 0 is persisted with
\* the last-run timestamp this run set.  (Stated for the builds in which every
\* worker has an account variable of its own.)
C2_PersistedEqualsFinalCopy ==
    (perIter /\ cmd = "run" /\ lpc \in {"summary", "done"}) =>
        \A k \in DOMAIN db :
            /\ disk[k] = acct[wk[k].ref]
            /\ (wk[k].finalError = ErrNil /\ wk[k].strategy.PuzzlesPerDay > 0)
                  => disk[k].LastRun = wk[k].loopEndAt

\* C3: after a run in which a non-premium account finished successfully under
\* a strategy with puzzle-count target > 0, a following run of that account
\* started less than 24 hours later ends with the cooldown error and attempts
\* no puzzle session.
C3_SecondRunOnCooldown ==
    (cmd = "runOne" /\ lpc = "summary") =>
        LET h == hist[cur] IN
        (/\ h.ran /\ h.ok /\ h.ppd > 0 /\ ~h.premium
         /\ ~acct[cur].IsPremium
         /\ wk[cur].startedAt - h.endedAt < 24)
            => (/\ results[1].Error.kind = "on cooldown until"
                /\ wk[cur].fetches = 0)

\* C4: in every run of runSolver the store is saved exactly once, after every
\* worker has finished and sent its result; no save and no aggregation step
\* happens while a worker is still running.
C4_SaveOnceAfterJoin ==
    cmd = "run" =>
        /\ saves <= 1
        /\ lpc \in {"range", "acquire", "drain", "save"} => saves = 0
        /\ lpc \in {"summary", "done"} => saves = 1
        /\ lpc \in {"range", "acquire"} => results = << >>
        /\ lpc \in {"drain", "save", "summary", "done"} =>
              \A k \in DOMAIN db : wk[k].pc = "done" /\ wk[k].sent = 1

C4_Witness ==
    /\ cmd = "run"
    /\ lpc = "summary"
    /\ saves = 1
    /\ Cardinality(DOMAIN db) >= 2
    /\ Len(results) = Cardinality(DOMAIN db)

\* C5: every call of processAccount sends exactly one ProcessResult, on every
\* path; no worker ever finds the channel full, and after the join the channel
\* holds exactly one result per account.
C5_OneResultPerCall ==
    cmd = "run" =>
        /\ \A k \in Keys :
             /\ wk[k].pc \in RunningPCs \cup {"idle"} => wk[k].sent = 0
             /\ wk[k].pc \in {"returned", "done"} => wk[k].sent = 1
             /\ wk[k].pc \in RunningPCs => Len(resultsChan) < Cardinality(DOMAIN db)
        /\ lpc = "drain" =>
             /\ Len(resultsChan) = Cardinality(DOMAIN db)
             /\ \A k \in DOMAIN db :
                  Cardinality({ i \in 1..Len(resultsChan) : resultsChan[i].by = k }) = 1

\* the joined channel holds the result of a failed lookup and of a success
C5_Witness ==
    /\ cmd = "run"
    /\ lpc = "drain"
    /\ Len(resultsChan) = 2
    /\ \E i, j \in 1..Len(resultsChan) :
         /\ resultsChan[i].Error = ErrStrategy
         /\ resultsChan[j].Error = ErrNil /\ resultsChan[j].PuzzlesSolved = 1

C7_BlockedRunSolvesNothing ==
    \A k \in Keys :
        GateSawRecentFreeRun(k) =>
            /\ wk[k].fetches = 0
            /\ wk[k].submits = 0
            /\ wk[k].pc \in {"finalStats", "report", "returned", "done"}
            /\ wk[k].finalError.kind = "on cooldown until"
            /\ (cmd = "runOne" /\ lpc \in {"save", "summary"}) =>
                  /\ results[1].PuzzlesSolved = 0
                  /\ results[1].Error.kind = "on cooldown until"

C7_Witness ==
    /\ cmd = "runOne"
    /\ lpc = "save"
    /\ GateSawRecentFreeRun(cur)
    /\ wk[cur].gate.at - wk[cur].gate.LastRun = 23
    /\ results[1].Error.kind = "on cooldown until"

\* C8 as stated: a non-premium account whose last run is less than 24 hours
\* old is blocked before any remote call of any kind is made for it.
C8_NoRemoteCallBeforeBlock ==
    \A k \in Keys :
        GateSawRecentFreeRun(k) =>
            wk[k].statsCalls = 0 /\ wk[k].fetches = 0 /\ wk[k].submits = 0

\* C8 as amended: such an account is blocked after the initial stats lookup
\* and before any puzzle session: its run makes the initial and the final
\* stats lookup and the completion webhook, and no fetch, no submit and no
\* pre-puzzle stats lookup.
C8_BlockedRunCallsOnlyStats ==
    \A k \in Keys :
        GateSawRecentFreeRun(k) =>
            /\ wk[k].fetches = 0 /\ wk[k].submits = 0
            /\ wk[k].pc = "finalStats" => wk[k].statsCalls = 1 /\ wk[k].hooks = 0
            /\ wk[k].pc = "report" => wk[k].statsCalls = 2 /\ wk[k].hooks = 0
            /\ wk[k].pc \in {"returned", "done"} =>
                  wk[k].statsCalls = 2 /\ wk[k].hooks = 1

C8_Witness ==
    /\ cmd = "runOne"
    /\ GateSawRecentFreeRun(cur)
    /\ wk[cur].pc = "returned"
    /\ wk[cur].statsCalls = 2
    /\ wk[cur].hooks = 1

\* C9: the gate blocks an account if and only if it is not premium, its last
\* run is set and less than 24 hours have passed since it; the unblock time
\* it reports is last-run + 24h.
C9_GateBlocksIff ==
    \A k \in Keys :
        wk[k].gate.seen =>
            /\ RunBlocked(k) <=> GateSawRecentFreeRun(k)
            /\ RunBlocked(k) => wk[k].finalError.until = wk[k].gate.LastRun + 24
            /\ wk[k].gate.IsPremium => ~RunBlocked(k)
            /\ wk[k].gate.LastRun = ZeroTime => ~RunBlocked(k)
            /\ wk[k].gate.at - wk[k].gate.LastRun >= 24 => ~RunBlocked(k)

\* a free account whose last run is exactly 24 hours old passes the gate
C9_Witness ==
    \E k \in Keys :
        /\ wk[k].gate.seen
        /\ ~wk[k].gate.IsPremium
        /\ wk[k].gate.LastRun # ZeroTime
        /\ wk[k].gate.at - wk[k].gate.LastRun = 24
        /\ wk[k].pc = "loop"

SucceededWithCountTarget(k) ==
    /\ wk[k].pc \in {"finalStats", "report", "returned", "done"}
    /\ wk[k].gate.seen
    /\ wk[k].finalError = ErrNil
    /\ wk[k].strategy.PuzzlesPerDay > 0

\* C10 as stated: the last-run timestamp a successful run records is the time
\* at which that run started.
C10_LastRunIsRunStart ==
    \A k \in Keys :
        SucceededWithCountTarget(k) => Account(k).LastRun = wk[k].startedAt

\* C10 as amended: the last-run timestamp a successful run records is the
\* time at which its solving loop ended, after its last puzzle session.
C10_LastRunIsLoopEnd ==
    \A k \in Keys :
        SucceededWithCountTarget(k) =>
            /\ Account(k).LastRun = wk[k].loopEndAt
            /\ wk[k].loopEndAt >= wk[k].submitAt
            /\ wk[k].submitAt >= wk[k].startedAt

\* a run whose loop ended an hour or more after the run started
C10_Witness ==
    \E k \in Keys :
        /\ SucceededWithCountTarget(k)
        /\ wk[k].startedAt < wk[k].submitAt
        /\ Account(k).LastRun = wk[k].loopEndAt

\* ------------------------------------------------- the run loop (C11 .. C16)
\* the worker is inside the loop / has left it
LoopPCs == {"loop", "fetch", "submit", "sleep"}
EndPCs  == {"afterLoop", "finalStats", "report", "returned", "done"}

\* the result of worker k, wherever it is: still in the channel or received
ResultsOf(k) ==
    { resultsChan[i] : i \in { j \in 1..Len(resultsChan) : resultsChan[j].by = k } }
        \cup { results[i] : i \in { j \in 1..Len(results) : results[j].by = k } }

\* C11: if the account's strategy name is not in the strategy mapping,
\* processAccount ends at once with the strategy-not-found error: no remote
\* call, no cooldown gate, no puzzle session, PuzzlesSolved = 0 and the account
\* record as it was loaded.
C11_UnknownStrategyEndsAtOnce ==
    \A k \in Keys :
        (wk[k].pc \notin {"idle", "start"} /\ Account(k).StrategyName \notin StrategyNames) =>
            /\ wk[k].pc \in {"returned", "done"}
            /\ wk[k].statsCalls = 0 /\ wk[k].fetches = 0 /\ wk[k].submits = 0
            /\ wk[k].hooks = 0
            /\ ~wk[k].gate.seen
            /\ Account(k) = db[k]
            /\ \A r \in ResultsOf(k) : r.Error = ErrStrategy /\ r.PuzzlesSolved = 0
            /\ (cmd = "runOne" /\ lpc \in {"save", "summary"}) => ResultsOf(k) # {}

C11_Witness ==
    /\ cmd = "runOne"
    /\ lpc = "save"
    /\ results[1].Error = ErrStrategy
    /\ ~db[cur].IsPremium
    /\ db[cur].LastRun = NowStart - 1
    /\ wk[cur].pc = "returned"

\* C12: a strategy in stop-by-puzzle-count mode with target C > 0, on a
\* runnable account whose sessions all succeed, leaves the loop after exactly
\* C sessions, and the result reports PuzzlesSolved = C with no error.
C12_CountModeRunsExactlyTarget ==
    \A k \in Keys :
        LET s == wk[k].strategy
        IN (s.StopMode = StopModePuzzles /\ s.PuzzlesPerDay > 0) =>
              /\ wk[k].pc \in LoopPCs =>
                    wk[k].solvedCount < s.PuzzlesPerDay /\ wk[k].fetches <= s.PuzzlesPerDay
              /\ (wk[k].pc \in EndPCs /\ wk[k].finalError = ErrNil) =>
                    /\ wk[k].solvedCount = s.PuzzlesPerDay
                    /\ wk[k].fetches = s.PuzzlesPerDay
                    /\ wk[k].submits = s.PuzzlesPerDay
              /\ \A r \in ResultsOf(k) :
                    r.Error = ErrNil => r.PuzzlesSolved = s.PuzzlesPerDay

C12_Witness ==
    /\ cmd = "runOne"
    /\ lpc = "save"
    /\ wk[cur].strategy.StopMode = StopModePuzzles
    /\ wk[cur].strategy.PuzzlesPerDay = 2
    /\ wk[cur].fetches = 2
    /\ results[1].Error = ErrNil
    /\ results[1].PuzzlesSolved = 2

\* C13: a strategy in stop-by-target-rating mode with target R > 0, whose
\* sessions all succeed, leaves the loop right after the first session whose
\* returned rating is >= R and attempts no session after it.
C13_RatingModeStopsAtTarget ==
    \A k \in Keys :
        LET s == wk[k].strategy
        IN (s.StopMode = StopModeRating /\ s.TargetRating > 0) =>
              /\ wk[k].reached =>
                    /\ wk[k].pc \in EndPCs
                    /\ wk[k].fetches = wk[k].solvedCount
                    /\ wk[k].submits = wk[k].solvedCount
                    /\ wk[k].finalError = ErrNil
              /\ (wk[k].pc \in EndPCs /\ wk[k].finalError = ErrNil) => wk[k].reached
              /\ wk[k].pc \in LoopPCs => wk[k].lastRating < s.TargetRating

C13_Witness ==
    \E k \in Keys :
        /\ wk[k].strategy.StopMode = StopModeRating
        /\ wk[k].strategy.TargetRating > 0
        /\ wk[k].reached
        /\ wk[k].solvedCount >= 2
        /\ wk[k].pc = "finalStats"

\* C14: in stop-by-puzzle-count mode with target <= 0 and in
\* stop-by-target-rating mode with target <= 0 the stop predicate is never
\* true: the loop is left only through a session error, so a run whose
\* sessions all succeed never leaves it.
C14_NoTargetNeverStops ==
    \A k \in Keys :
        LET s == wk[k].strategy
        IN (/\ \/ s.StopMode = StopModePuzzles /\ s.PuzzlesPerDay <= 0
               \/ s.StopMode = StopModeRating /\ s.TargetRating <= 0
            /\ wk[k].pc \in EndPCs) =>
                  /\ wk[k].finalError \in {ErrFetch, ErrSubmit}
                  /\ wk[k].fetches = wk[k].solvedCount + 1

C14_Witness ==
    \E k \in Keys :
        /\ wk[k].strategy.StopMode = StopModeRating
        /\ wk[k].strategy.TargetRating <= 0
        /\ wk[k].strategy.PuzzlesPerDay > 0
        /\ wk[k].pc = "loop"
        /\ wk[k].solvedCount >= 2
        /\ wk[k].lastRating > 0
        /\ wk[k].finalError = ErrNil

\* C15: when the (n+1)-th puzzle session of a run fails after n successful
\* ones, the loop stops at once, with no retry and no further session, and the
\* result carries that error together with PuzzlesSolved = n.
C15_SessionErrorEndsRun ==
    \A k \in Keys :
        wk[k].finalError \in {ErrFetch, ErrSubmit} =>
            /\ wk[k].pc \in EndPCs
            /\ wk[k].fetches = wk[k].solvedCount + 1
            /\ wk[k].submits = IF wk[k].finalError = ErrSubmit THEN wk[k].fetches
                                                               ELSE wk[k].fetches - 1
            /\ \A r \in ResultsOf(k) :
                   r.Error = wk[k].finalError /\ r.PuzzlesSolved = wk[k].fetches - 1

C15_Witness ==
    /\ cmd = "runOne"
    /\ lpc = "save"
    /\ results[1].Error = ErrFetch
    /\ results[1].PuzzlesSolved = 1
    /\ wk[cur].fetches = 2

\* C16: processAccount changes the account's last-run timestamp if and only
\* if the run ended with no error and the strategy's puzzle-count target is
\* > 0, whatever the stop mode; on cooldown, strategy-not-found or session
\* error, and on success with count target <= 0, it is left as it was.
C16_LastRunChangesIffCountedSuccess ==
    \A k \in Keys :
        wk[k].pc # "idle" =>
            LET a    == Account(k)
                name == a.StrategyName
                done == wk[k].pc \in {"finalStats", "report", "returned", "done"}
            IN /\ a.LastRun # db[k].LastRun
                    <=> /\ done
                        /\ wk[k].finalError = ErrNil
                        /\ \A r \in ResultsOf(k) : r.Error = ErrNil
                        /\ name \in StrategyNames
                        /\ strategies[name].PuzzlesPerDay > 0
               /\ a.LastRun # db[k].LastRun => a.LastRun = now

C16_Witness ==
    \E k \in Keys :
        /\ wk[k].pc = "report"
        /\ wk[k].strategy.StopMode = StopModeRating
        /\ wk[k].strategy.PuzzlesPerDay > 0
        /\ wk[k].finalError = ErrNil
        /\ Account(k).LastRun = now
        /\ db[k].LastRun = ZeroTime

\* ------------------------------------------- pacing and the reported time
\* C17 as stated: in paced submit mode, after a successful session that does
\* not stop the run, the worker waits for a real duration equal to the
\* reported time-taken of that session (0.3 s gives 0.3 s, 15.7 s gives 15.7 s).
C17_WaitEqualsTimeTaken ==
    \A k \in Keys :
        wk[k].pc = "sleep" => wk[k].delay = wk[k].timeTaken

\* C18: in asap submit mode the worker never sleeps between sessions and
\* never starts a countdown task, whatever the reported time-taken.
C18_AsapNeverSleeps ==
    \A k \in Keys :
        (wk[k].pc # "idle" /\ Account(k).StrategyName \in StrategyNames
            /\ strategies[Account(k).StrategyName].SubmitMode = "asap") =>
                /\ wk[k].pc # "sleep"
                /\ wk[k].sleeps = 0
                /\ wk[k].tickers = 0
                /\ wk[k].delay = 0

C18_Witness ==
    \E k \in Keys :
        /\ wk[k].strategy.SubmitMode = "asap"
        /\ wk[k].strategy.TimeMode = "hour"
        /\ wk[k].pc = "fetch"
        /\ wk[k].solvedCount = 1
        /\ wk[k].submitAt = now

C20_SubmittedInHalfOpenRange ==
    draw.drawn =>
        LET sec == 100000
        IN CASE draw.mode = "legit" -> 15 * sec <= draw.sent /\ draw.sent < 45 * sec
             [] draw.mode = "hour"  -> 3600 * sec <= draw.sent /\ draw.sent < 5400 * sec
             [] draw.mode = "zero"  -> sec <= 10 * draw.sent /\ 10 * draw.sent < 4 * sec
             [] OTHER               -> draw.sent = 15 * sec

\* C20 as amended: the duration drawn lies in [15, 45) seconds for legit, in
\* [3600, 5400) for hour, in [0.1, 0.4) for zero and is 15 seconds for any
\* other mode; the value submitted is the draw rounded to the nearest
\* millisecond, so it lies in [15, 45], [3600, 5400], [0.1, 0.4], or is 15.
C20_SubmittedIsDrawRoundedToMillis ==
    draw.drawn =>
        LET sec == 100000
            ms  == 100
            d   == draw.duration
            v   == draw.sent
        IN /\ v % ms = 0
           /\ 2 * (v - d) <= ms /\ 2 * (d - v) < ms
           /\ CASE draw.mode = "legit" ->
                     15 * sec <= d /\ d < 45 * sec /\ 15 * sec <= v /\ v <= 45 * sec
                [] draw.mode = "hour" ->
                     3600 * sec <= d /\ d < 5400 * sec /\ 3600 * sec <= v /\ v <= 5400 * sec
                [] draw.mode = "zero" ->
                     sec <= 10 * d /\ 10 * d < 4 * sec /\ sec <= 10 * v /\ 10 * v <= 4 * sec
                [] OTHER -> d = 15 * sec /\ v = 15 * sec

C20_Witness ==
    /\ draw.drawn
    /\ draw.mode = "legit"
    /\ draw.duration < 45 * UnitsPerSecond
    /\ draw.sent = 45 * UnitsPerSecond

Listed(q, n) == Cardinality({ i \in 1..Len(q) : q[i] = n })

\* C22 as stated: in the final summary every processed account is in exactly
\* one of the three buckets: success iff its result has no error, cooldown
\* iff the cooldown gate blocked it, errors iff it failed for any other
\* reason, whatever the text of that other error.
C22_BucketsFollowOutcome ==
    (cmd = "run" /\ lpc = "done" /\ perIter) =>
        \A k \in DOMAIN db :
            /\ Listed(out.success, k) + Listed(out.cooldown, k) + Listed(out.errors, k) = 1
            /\ Listed(out.success, k) = 1 <=> \A r \in ResultsOf(k) : r.Error = ErrNil
            /\ Listed(out.cooldown, k) = 1 <=> GateSawRecentFreeRun(k)
            /\ Listed(out.errors, k) = 1 <=>
                   /\ ~GateSawRecentFreeRun(k)
                   /\ \A r \in ResultsOf(k) : r.Error # ErrNil

\* the SendWebhook calls the command in progress has made so far
HookCalls ==
    (IF cmd = "run" THEN 1 ELSE 0)
        + Cardinality({ k \in Keys : wk[k].hooks > 0 })
        + (IF cmd = "run" /\ lpc = "done" THEN 1 ELSE 0)

\* C23: whether each webhook delivery succeeds or fails the run goes on the
\* same: a failed SendWebhook is not retried, changes no account's result
\* and not the persisted store, and does not stop the run.
C23_WebhookFailureIsSwallowed ==
    /\ \A k \in Keys : wk[k].hooks <= 1
    /\ out.hookTries = IF remote.webhook = "unset" THEN 0 ELSE HookCalls
    /\ out.hookFails <= out.hookTries
    /\ \A k \in Keys : \A r \in ResultsOf(k) :
          /\ r.Error = IF Account(k).StrategyName \in StrategyNames
                       THEN wk[k].finalError ELSE ErrStrategy
          /\ r.PuzzlesSolved = wk[k].solvedCount
    /\ (cmd = "run" /\ lpc \in {"summary", "done"}) =>
          /\ disk = db
          /\ Len(results) = Cardinality(DOMAIN db)
    /\ \A k \in Keys :
          (wk[k].hooks = 1 /\ out.hookFails > 0) => wk[k].pc \in {"returned", "done"}

C23_Witness ==
    /\ cmd = "run"
    /\ lpc = "done"
    /\ Cardinality(DOMAIN db) = 2
    /\ out.hookFails = 4
    /\ Len(out.success) = 2

\* C30 as stated: an authorization failure answered by the remote during a
\* puzzle session of a run clears that account's stored token to empty.
C30_AuthFailureClearsToken ==
    \A k \in Keys :
        (/\ wk[k].pc \in {"afterLoop", "finalStats", "report", "returned", "done"}
         /\ wk[k].finalError = ErrEmptyPuzzle(<<"403", "Forbidden">>)) =>
            /\ Account(k).Cookie = NoCookie
            /\ (cmd = "run" /\ lpc \in {"summary", "done"}) => disk[k].Cookie = NoCookie

\* ------------------------------------------------------- the status surface
\* the keys in the list, and the callers inside a critical section
Present(keys) == { keys[i] : i \in 1..Len(keys) }
Inside == { c \in Callers : callers[c].pc \in {"body", "erase", "draw", "unlock"} }

C25_RemoveLineRemovesOnlyThatKey ==
    /\ [](\A c \in Callers :
            (callers[c].op = "RemoveLine" /\ callers[c].pc = "unlock") =>
                /\ callers[c].key \notin Present(orderedKeys)
                /\ callers[c].key \notin DOMAIN persistentLines
                /\ Len(display) = Len(orderedKeys)
                /\ \A i \in 1..Len(orderedKeys) :
                      display[i] = persistentLines[orderedKeys[i]])
    /\ [][ \A c \in Callers :
             (callers[c].op = "RemoveLine" /\ callers[c].pc = "body"
                 /\ callers'[c].pc # "body") =>
                 LET key     == callers[c].key
                     Kept(k) == k # key
                 IN /\ orderedKeys' = SelectSeq(orderedKeys, Kept)
                    /\ DOMAIN persistentLines' = DOMAIN persistentLines \ {key}
                    /\ \A k \in DOMAIN persistentLines' :
                          persistentLines'[k] = persistentLines[k]
                    /\ key \notin DOMAIN persistentLines =>
                          UNCHANGED << persistentLines, orderedKeys >>
         ]_vars

C25_Witness ==
    \E c \in Callers :
        /\ callers[c] = [pc |-> "unlock", op |-> "RemoveLine", key |-> "a", val |-> ""]
        /\ lastOp = [k \in LogKeys |-> IF k = "a" THEN "remove" ELSE "add"]
        /\ orderedKeys = <<"b">>
        /\ display = <<"x">>

\* C26: AddLine, RemoveLine, Printf, Println, Flush and ClearAll exclude one
\* another: no two callers are inside a critical section at once, so every
\* erase-and-redraw is whole when the mutex is free.
C26_LoggerCallsExcludeOneAnother ==
    /\ Cardinality(Inside) <= 1
    /\ \A c \in Inside : mu = c
    /\ Inside = {} =>
          /\ mu = 0
          /\ lastUpdateLines = Len(orderedKeys)
          /\ Len(display) = Len(orderedKeys)
          /\ \A i \in 1..Len(orderedKeys) : display[i] = persistentLines[orderedKeys[i]]

C26_Witness ==
    \E c, d \in Callers :
        /\ callers[c].pc = "draw"
        /\ callers[c].op = "Printf"
        /\ Len(display) < Len(orderedKeys)
        /\ callers[d].pc = "lock"
        /\ callers[d].op = "ClearAll"

\* C27: under any interleaving of AddLine and RemoveLine calls the key set of
\* the status surface is the set of the keys whose last operation was an
\* add, each of them present once.
C27_KeySetIsNetOfAddsAndRemoves ==
    \A k \in LogKeys :
        /\ Cardinality({ i \in 1..Len(orderedKeys) : orderedKeys[i] = k })
              = IF lastOp[k] = "add" THEN 1 ELSE 0
        /\ k \in DOMAIN persistentLines <=> lastOp[k] = "add"

C27_Witness ==
    /\ \A c \in Callers : callers[c].pc = "idle"
    /\ lastOp = [k \in LogKeys |-> IF k = "a" THEN "add" ELSE "remove"]
    /\ orderedKeys = <<"a">>
    /\ persistentLines["a"] = "y"

\* C28: every call of the status surface gets the lock in the end and
\* returns: no interleaving of the callers deadlocks on it.
C28_EveryLoggerCallReturns ==
    \A c \in Callers : (callers[c].pc # "idle") ~> (callers[c].pc = "idle")

C28_Witness ==
    \E c, d \in Callers :
        /\ callers[c].pc = "lock"
        /\ mu = d
        /\ callers[d].pc = "body"
        /\ callers[d].op = "AddLine"
        /\ callers[c].op = "AddLine"
        /\ callers[c].key = callers[d].key

\* -------------------------------------------------------- refresh and prune
\* the refresh logged a membership lookup answered 403 Forbidden for key k
RefreshSawForbidden(k) ==
    \E i \in 1..Len(results) :
        /\ results[i].key = k
        /\ results[i].Error.kind = "failed to get membership status:"
        /\ results[i].Error.body = <<"403", "Forbidden">>

\* C29: when the membership lookup of a refresh is answered with a forbidden
\* response, that account's token in the store is cleared and the cleared
\* token is persisted; a prune run afterwards removes the account.
C29_ForbiddenRefreshClearsTokenAndPruneRemoves ==
    \A k \in Keys :
        RefreshSawForbidden(k) =>
            /\ (cmd = "refresh" /\ lpc = "done") =>
                   (k \in DOMAIN disk /\ disk[k].Cookie = NoCookie)
            /\ (cmd = "prune" /\ lpc = "done") => k \notin DOMAIN disk

C29_Witness ==
    /\ cmd = "prune"
    /\ lpc = "done"
    /\ saves = 1
    /\ RefreshSawForbidden(1)
    /\ DOMAIN disk = {2}
    /\ disk[2].Cookie = 2

\* C38: after any sequence of AddLine, RemoveLine and ClearAll calls the
\* ordered key list has no duplicates and holds the keys of the line map,
\* and a key added again after its removal is in the list once, at its end.
C38_KeyListMatchesLineMap ==
    /\ [](/\ \A i, j \in 1..Len(orderedKeys) :
                orderedKeys[i] = orderedKeys[j] => i = j
          /\ { orderedKeys[i] : i \in 1..Len(orderedKeys) } = DOMAIN persistentLines)
    /\ [][ \A k \in LogKeys :
             (lastOp[k] = "remove" /\ lastOp'[k] = "add") =>
                 /\ Len(orderedKeys') = Len(orderedKeys) + 1
                 /\ orderedKeys'[Len(orderedKeys')] = k
                 /\ \A i \in 1..Len(orderedKeys) : orderedKeys'[i] = orderedKeys[i]
                 /\ \A i \in 1..Len(orderedKeys) : orderedKeys[i] # k
         ]_vars

C38_Witness ==
    \E c \in Callers :
        /\ callers[c] = [pc |-> "erase", op |-> "AddLine", key |-> "a", val |-> "x"]
        /\ orderedKeys = <<"b", "a">>
        /\ DOMAIN persistentLines = {"a", "b"}
        /\ Len(display) = 2

\* ---------------------------------------------------------- the account store
\* C31: prune removes the accounts whose token is empty and no other, and
\* leaves every other record as it was; no step of run, run of one account,
\* refresh, add or changestrategy takes an account out of the store.
C31_OnlyPruneRemovesAccounts ==
    [][ /\ (cmd = "prune" /\ lpc = "range" /\ lpc' = "done") =>
              /\ DOMAIN disk' = { k \in DOMAIN disk : disk[k].Cookie # NoCookie }
              /\ \A k \in DOMAIN disk' : disk'[k] = disk[k]
        /\ (cmd = "prune" /\ ~(lpc = "range" /\ lpc' = "done")) => disk' = disk
        /\ cmd # "prune" => DOMAIN disk \subseteq DOMAIN disk'
      ]_vars

C31_Witness ==
    /\ cmd = "prune"
    /\ lpc = "done"
    /\ saves = 1
    /\ DOMAIN disk = {2}
    /\ disk[2].Cookie = 2
    /\ disk[2].StrategyName = "nosuch"

\* C35 as stated: after any sequence of add, refresh, prune, changestrategy
\* and run operations every entry of the store is keyed by the username of
\* its record, and no entry has an empty username.
C35_KeyIsUsername ==
    \A k \in DOMAIN disk : disk[k].Username = k /\ k # 0

\* the error the refresh in progress logged for key k, ErrNil when none
RefreshError(rs, k) ==
    IF \E i \in 1..Len(rs) : rs[i].key = k
    THEN rs[CHOOSE i \in 1..Len(rs) : rs[i].key = k].Error
    ELSE ErrNil

\* the fields of old and new other than those in the set fields are equal
SameBut(old, new, fields) ==
    \A f \in (DOMAIN old \cup DOMAIN new) \ fields :
        f \in DOMAIN old /\ f \in DOMAIN new /\ old[f] = new[f]

AllAssigned(d, n, listed) ==
    \A i \in 1..Len(listed) : listed[i] \in DOMAIN d /\ d[listed[i]].StrategyName = n

\* C37: changestrategy is all or nothing: it assigns the strategy to every
\* listed account and saves the store, or, the strategy missing from the
\* catalog or a listed account from the store, leaves the saved store as it was.
C37_ChangeStrategyAllOrNothing ==
    /\ [](cmd = "changestrategy" =>
            /\ lpc = "fatal" =>
                  /\ saves = 0
                  /\ \/ args.strategyName \notin StrategyNames
                     \/ \E i \in 1..Len(args.accounts) : args.accounts[i] \notin DOMAIN db
            /\ (lpc = "done" /\ DOMAIN db # {}) =>
                  /\ saves = 1
                  /\ args.strategyName \in StrategyNames
                  /\ AllAssigned(disk, args.strategyName, args.accounts))
    /\ [][ cmd = "changestrategy" =>
             \/ disk' = disk
             \/ /\ AllAssigned(disk', args.strategyName, args.accounts)
                /\ DOMAIN disk' = DOMAIN disk
                /\ \A k \in DOMAIN disk :
                      SameBut(disk[k], disk'[k], {"StrategyName"})
                /\ \A k \in DOMAIN disk :
                      (\A i \in 1..Len(args.accounts) : args.accounts[i] # k) =>
                          disk'[k] = disk[k]
         ]_vars

C37_Witness ==
    /\ cmd = "changestrategy"
    /\ lpc = "done"
    /\ saves = 1
    /\ args.accounts = <<2, 1>>
    /\ disk[1].StrategyName = "count"
    /\ disk[2].StrategyName = "count"

\* ------------------------------------------------------- the end of a run
\* C32: every remote call returning and every loop ending, a run that has
\* started reaches the save and the summary with every slot of the semaphore
\* released and the wait group at zero; until then the launcher holds no
\* more slots than the limit and never waits on a semaphore no worker will
\* release.
C32_RunReachesSaveAndSummary ==
    /\ (cmd = "run" ~> (lpc = "done" /\ saves = 1 /\ semaphore = 0 /\ wg = 0))
    /\ [](lpc = "acquire" /\ ~SemaphoreHasRoom(semaphore, EffectiveLimit(maxConc))
            => \E k \in Keys : wk[k].pc \notin {"idle", "done"})
    /\ [](semaphore \in 0..EffectiveLimit(maxConc))

C32_Witness ==
    /\ cmd = "run"
    /\ lpc = "done"
    /\ saves = 1
    /\ semaphore = 0
    /\ wg = 0
    /\ maxConc = 1
    /\ Len(results) = MaxAccounts
    /\ \E i \in 1..Len(results) : results[i].Error # ErrNil

C40_PositionNeverBlocks ==
    \A c \in Conns : server.users[c].pc # "send"

\* ------------------------------------------- processAccount's countdown
\* C33 as stated: a countdown goroutine runs only while the worker is in
\* the sleep it was started for: none is running once the worker has gone
\* on to the next session, nor once the account's run has finished.
C33_TaskStopsWithItsDelay ==
    \A i \in 1..Len(tasks) : tasks[i].pc # "done" => wk[Worker].pc = "sleep"

\* C33 amended: a countdown goroutine stops on its own, at its first look at
\* the clock that finds no time left: each of its updates follows a look that
\* found time left, it is done only after a look that found less than half a
\* second left, and every goroutine started is done in the end.
C33_TaskStopsAtFirstCheckPastDelay ==
    /\ [](\A i \in 1..Len(tasks) :
            /\ tasks[i].pc \in {"add", "sleep"} => tasks[i].seen < tasks[i].deadline
            /\ tasks[i].pc = "done" =>
                   2 * (tasks[i].deadline - tasks[i].seen) < TicksPerSecond)
    /\ \A i \in 1..MaxSessions :
          (Len(tasks) >= i) ~> (Len(tasks) >= i /\ tasks[i].pc = "done")

C33_Witness ==
    /\ wk[Worker].pc = "returned"
    /\ Len(tasks) = 1
    /\ tasks[1].pc = "sleep"
    /\ now > tasks[1].deadline
    /\ tasks[1].deadline = NowStart + MaxDelay * TicksPerSecond

\* C34 as stated: the status surface holds no line for an account whose run
\* has finished, and while a session is solving its puzzle the account's line
\* is the one that session wrote, not a countdown's.
C34_NoLineAfterRunNoStaleCountdown ==
    /\ wk[Worker].pc = "returned" => StatusKey \notin DOMAIN persistentLines
    /\ wk[Worker].pc = "solve" => Line(persistentLines, StatusKey) = "Solving"

=============================================================================
